---- MODULE Spec2Model ----
(***************************************************************************)
(* Model of ai_wargame_skeleton.py: the 5x5 war game (units, legality,     *)
(* attack / repair / self-destruct resolvers, game-over predicate, turn    *)
(* controller) and the minimax / alpha-beta search that drives the         *)
(* computer player.                                                        *)
(***************************************************************************)
EXTENDS Integers, Sequences, FiniteSets, TLC

\* ------------------------------------------------------------------------
\* Enumerations and tables
\* ------------------------------------------------------------------------

\* UnitType values (the Enum's ordinals index the tables)
AI == 0
Tech == 1
Virus == 2
Program == 3
Firewall == 4

Attacker == "Attacker"
Defender == "Defender"
Player == {Attacker, Defender}

\* Player.next
PlayerNext(p) == IF p = Attacker THEN Defender ELSE Attacker

\* Options.dim
dim == 5

\* upper clamp of Unit.mod_health, and the default Unit.health
MaxHealth == 9

\* blast damage of self_destruct (the literal -2)
BlastDamage == 2

\* float("inf") of the search, as an integer above every heuristic score
Inf == 2000000000

\* Unit.damage_table
damage_table ==
  << <<3, 3, 3, 3, 1>>,
     <<1, 1, 6, 1, 1>>,
     <<9, 6, 1, 6, 1>>,
     <<3, 3, 3, 3, 1>>,
     <<1, 1, 1, 1, 1>> >>

\* Unit.repair_table
repair_table ==
  << <<0, 1, 1, 0, 0>>,
     <<3, 0, 0, 3, 3>>,
     <<0, 0, 0, 0, 0>>,
     <<0, 0, 0, 0, 0>>,
     <<0, 0, 0, 0, 0>> >>

\* an empty board cell (Python None)
None == [player |-> "None", type |-> -1, health |-> 0]

\* Unit(player, type, health)
Unit(p, t, h) == [player |-> p, type |-> t, health |-> h]

\* Unit.is_alive
is_alive(u) == u.health > 0

\* Unit.mod_health: add a delta, clamp to [0, 9]
UnitModHealth(u, delta) ==
  LET h == u.health + delta
  IN  [u EXCEPT !.health = IF h < 0 THEN 0 ELSE IF h > MaxHealth THEN MaxHealth ELSE h]

\* Unit.damage_amount
damage_amount(u, target) ==
  LET amount == damage_table[u.type + 1][target.type + 1]
  IN  IF target.health - amount < 0 THEN target.health ELSE amount

\* repair_amount that reads the table with repairer and target exchanged
repair_amount_transposed(u, target) == repair_table[target.type + 1][u.type + 1]

\* Unit.repair_amount
repair_amount(u, target) == repair_table[u.type + 1][target.type + 1]

\* ------------------------------------------------------------------------
\* Coordinates
\* ------------------------------------------------------------------------

Abs(x) == IF x < 0 THEN -x ELSE x

\* the cells of the board, as <<row, col>>
Cells == (0 .. dim - 1) \X (0 .. dim - 1)

\* Game.is_valid_coord
is_valid_coord(c) == ~(c[1] < 0 \/ c[1] >= dim \/ c[2] < 0 \/ c[2] >= dim)

\* Coord.iter_adjacent: up, left, down, right, inside the 5x5 grid
iter_adjacent(c) ==
  (IF c[1] - 1 >= 0 THEN << <<c[1] - 1, c[2]>> >> ELSE << >>) \o
  (IF c[2] - 1 >= 0 THEN << <<c[1], c[2] - 1>> >> ELSE << >>) \o
  (IF c[1] + 1 < 5 THEN << <<c[1] + 1, c[2]>> >> ELSE << >>) \o
  (IF c[2] + 1 < 5 THEN << <<c[1], c[2] + 1>> >> ELSE << >>)

\* Coord.iter_range(1): the 3x3 rectangle centred on c
iter_range(c, dist) ==
  {<<r, k>> : r \in (c[1] - dist) .. (c[1] + dist), k \in (c[2] - dist) .. (c[2] + dist)}

\* is_adjacent that also accepts the four diagonal neighbours
is_adjacent_with_diagonals(c1, c2) ==
  c1 # c2 /\ Abs(c1[1] - c2[1]) <= 1 /\ Abs(c1[2] - c2[2]) <= 1

\* Game.is_adjacent
is_adjacent(c1, c2) == Abs(c1[1] - c2[1]) + Abs(c1[2] - c2[2]) = 1

\* CoordPair.from_dim(dim).iter_rectangle(): the cells in row-major order
CellSeq == [i \in 1 .. dim * dim |-> <<(i - 1) \div dim, (i - 1) % dim>>]

\* ------------------------------------------------------------------------
\* Game state as a value (what clone() copies)
\* ------------------------------------------------------------------------

\* Game.get
get(g, c) == IF is_valid_coord(c) THEN g.board[c] ELSE None

\* set that puts units on cells and never empties one
set_never_clears(g, c, u) ==
  IF is_valid_coord(c) /\ u # None THEN [g EXCEPT !.board[c] = u] ELSE g

\* Game.set
set(g, c, u) ==
  IF is_valid_coord(c) THEN [g EXCEPT !.board[c] = u] ELSE g

\* remove_dead that clears the has_ai flag and leaves the dead unit in its cell
remove_dead_leaves_unit(g, c) ==
  LET unit == get(g, c)
  IN  IF unit # None /\ ~is_alive(unit) /\ unit.type = AI
      THEN IF unit.player = Attacker
           THEN [g EXCEPT !.attacker_has_ai = FALSE]
           ELSE [g EXCEPT !.defender_has_ai = FALSE]
      ELSE g

\* Game.remove_dead
remove_dead(g, c) ==
  LET unit == get(g, c)
  IN  IF unit # None /\ ~is_alive(unit)
      THEN LET g1 == set(g, c, None)
           IN  IF unit.type = AI
               THEN IF unit.player = Attacker
                    THEN [g1 EXCEPT !.attacker_has_ai = FALSE]
                    ELSE [g1 EXCEPT !.defender_has_ai = FALSE]
               ELSE g1
      ELSE g

\* Game.mod_health(coord, delta)
mod_health(g, c, delta) ==
  LET target == get(g, c)
  IN  IF target # None
      THEN remove_dead(set(g, c, UnitModHealth(target, delta)), c)
      ELSE g

\* result of a legality / resolver call: the state afterwards, the success
\* flag, the reason category, and whether the call raised instead of returning
Ret(g, ok, why) == [g |-> g, success |-> ok, reason |-> why, raised |-> FALSE]
Raise(g, why) == [g |-> g, success |-> FALSE, reason |-> why, raised |-> TRUE]

\* Game.is_valid_move
is_valid_move(g, src, dst) ==
  IF ~is_valid_coord(src) \/ ~is_valid_coord(dst)
  THEN Ret(g, FALSE, "not_within_board")
  ELSE LET unit == get(g, src)
       IN  IF unit = None \/ unit.player # g.next_player
           THEN Ret(g, FALSE, "choose_own_unit")
           ELSE Ret(g, TRUE, "")

\* is_movement_valid that lets every kind of unit move in the four directions
is_movement_valid_any_direction(g, src, dst) ==
  LET src_unit == get(g, src)
      near == {<<src[1] - 1, src[2]>>, <<src[1], src[2] - 1>>,
               <<src[1] + 1, src[2]>>, <<src[1], src[2] + 1>>}
      adj == iter_adjacent(src)
      engaged == \E i \in 1 .. Len(adj) :
                   get(g, adj[i]) # None /\ get(g, adj[i]).player # g.next_player
  IN  IF src_unit = None
      THEN Raise(g, "AttributeError")
      ELSE IF dst \notin near
      THEN Ret(g, FALSE, "only_by_one")
      ELSE IF src_unit.type \in {AI, Firewall, Program} /\ engaged
      THEN Ret(g, FALSE, "engaged_in_battle")
      ELSE IF get(g, dst) # None
      THEN Ret(g, FALSE, "destination_occupied")
      ELSE Ret(g, TRUE, "moved")

\* is_movement_valid without the engaged-in-battle test
is_movement_valid_ignores_engagement(g, src, dst) ==
  LET src_unit == get(g, src)
      up_left == {<<src[1] - 1, src[2]>>, <<src[1], src[2] - 1>>}
      down_right == {<<src[1] + 1, src[2]>>, <<src[1], src[2] + 1>>}
  IN  IF src_unit = None
      THEN Raise(g, "AttributeError")
      ELSE IF src_unit.type \in {AI, Firewall, Program}
              /\ src_unit.player = Attacker /\ dst \notin up_left
      THEN Ret(g, FALSE, "only_up_or_left")
      ELSE IF src_unit.type \in {AI, Firewall, Program}
              /\ src_unit.player = Defender /\ dst \notin down_right
      THEN Ret(g, FALSE, "only_down_or_right")
      ELSE IF dst \notin up_left \cup down_right
      THEN Ret(g, FALSE, "only_by_one")
      ELSE IF get(g, dst) # None
      THEN Ret(g, FALSE, "destination_occupied")
      ELSE Ret(g, TRUE, "moved")

\* is_movement_valid with the engaged-in-battle test applied to every kind
is_movement_valid_engagement_for_all(g, src, dst) ==
  LET src_unit == get(g, src)
      up_left == {<<src[1] - 1, src[2]>>, <<src[1], src[2] - 1>>}
      down_right == {<<src[1] + 1, src[2]>>, <<src[1], src[2] + 1>>}
      adj == iter_adjacent(src)
      engaged == \E i \in 1 .. Len(adj) :
                   get(g, adj[i]) # None /\ get(g, adj[i]).player # g.next_player
  IN  IF src_unit = None
      THEN Raise(g, "AttributeError")
      ELSE IF src_unit.type \in {AI, Firewall, Program}
              /\ src_unit.player = Attacker /\ dst \notin up_left
      THEN Ret(g, FALSE, "only_up_or_left")
      ELSE IF src_unit.type \in {AI, Firewall, Program}
              /\ src_unit.player = Defender /\ dst \notin down_right
      THEN Ret(g, FALSE, "only_down_or_right")
      ELSE IF dst \notin up_left \cup down_right
      THEN Ret(g, FALSE, "only_by_one")
      ELSE IF engaged
      THEN Ret(g, FALSE, "engaged_in_battle")
      ELSE IF get(g, dst) # None
      THEN Ret(g, FALSE, "destination_occupied")
      ELSE Ret(g, TRUE, "moved")

\* Game.is_movement_valid (src holds a unit)
is_movement_valid(g, src, dst) ==
  LET src_unit == get(g, src)
      up == <<src[1] - 1, src[2]>>
      left == <<src[1], src[2] - 1>>
      down == <<src[1] + 1, src[2]>>
      right == <<src[1], src[2] + 1>>
      adj == iter_adjacent(src)
      engaged == \E i \in 1 .. Len(adj) :
                   get(g, adj[i]) # None /\ get(g, adj[i]).player # g.next_player
      occupied == get(g, dst) # None
  IN  IF src_unit = None
      THEN Raise(g, "AttributeError")
      ELSE IF src_unit.type \in {AI, Firewall, Program}
      THEN IF src_unit.player = Attacker /\ ~(dst = up \/ dst = left)
           THEN Ret(g, FALSE, "only_up_or_left")
           ELSE IF src_unit.player # Attacker /\ ~(dst = down \/ dst = right)
           THEN Ret(g, FALSE, "only_down_or_right")
           ELSE IF engaged
           THEN Ret(g, FALSE, "engaged_in_battle")
           ELSE IF occupied
           THEN Ret(g, FALSE, "destination_occupied")
           ELSE Ret(g, TRUE, "moved")
      ELSE IF ~(dst = down \/ dst = right \/ dst = up \/ dst = left)
           THEN Ret(g, FALSE, "only_by_one")
           ELSE IF occupied
           THEN Ret(g, FALSE, "destination_occupied")
           ELSE Ret(g, TRUE, "moved")

\* attack without the damage dealt back to the attacker
attack_one_sided(g, attacker_coord, target_coord) ==
  LET attacker_unit == get(g, attacker_coord)
      target_unit == get(g, target_coord)
  IN  IF attacker_unit = None \/ target_unit = None
      THEN Ret(g, FALSE, "invalid_attack")
      ELSE IF ~(PlayerNext(attacker_unit.player) = target_unit.player)
      THEN Ret(g, FALSE, "not_adversarial")
      ELSE IF ~is_adjacent(attacker_coord, target_coord)
      THEN Ret(g, FALSE, "attack_not_adjacent")
      ELSE LET damage == damage_amount(attacker_unit, target_unit)
               target1 == UnitModHealth(target_unit, -damage)
           IN  Ret(remove_dead(set(g, target_coord, target1), target_coord),
                   TRUE, "attacked")

\* attack in which a target that is destroyed deals no damage back
attack_dead_target_harmless(g, attacker_coord, target_coord) ==
  LET attacker_unit == get(g, attacker_coord)
      target_unit == get(g, target_coord)
  IN  IF attacker_unit = None \/ target_unit = None
      THEN Ret(g, FALSE, "invalid_attack")
      ELSE IF ~(PlayerNext(attacker_unit.player) = target_unit.player)
      THEN Ret(g, FALSE, "not_adversarial")
      ELSE IF ~is_adjacent(attacker_coord, target_coord)
      THEN Ret(g, FALSE, "attack_not_adjacent")
      ELSE LET damage == damage_amount(attacker_unit, target_unit)
               target1 == UnitModHealth(target_unit, -damage)
               g1 == remove_dead(set(g, target_coord, target1), target_coord)
               damage_back == IF is_alive(target1)
                              THEN damage_amount(target1, attacker_unit) ELSE 0
               attacker1 == UnitModHealth(attacker_unit, -damage_back)
               g2 == remove_dead(set(g1, attacker_coord, attacker1), attacker_coord)
           IN  Ret(g2, TRUE, "attacked")

\* Game.attack
attack(g, attacker_coord, target_coord) ==
  LET attacker_unit == get(g, attacker_coord)
      target_unit == get(g, target_coord)
  IN  IF attacker_unit = None \/ target_unit = None
      THEN Ret(g, FALSE, "invalid_attack")
      ELSE IF ~(PlayerNext(attacker_unit.player) = target_unit.player)
      THEN Ret(g, FALSE, "not_adversarial")
      ELSE IF ~is_adjacent(attacker_coord, target_coord)
      THEN Ret(g, FALSE, "attack_not_adjacent")
      ELSE LET damage == damage_amount(attacker_unit, target_unit)
               target1 == UnitModHealth(target_unit, -damage)
               g1 == remove_dead(set(g, target_coord, target1), target_coord)
               \* target_unit is still referenced after its removal
               damage_back == damage_amount(target1, attacker_unit)
               attacker1 == UnitModHealth(attacker_unit, -damage_back)
               g2 == remove_dead(set(g1, attacker_coord, attacker1), attacker_coord)
           IN  Ret(g2, TRUE, "attacked")

\* repair that tests the target's health before the repair table
repair_health_test_first(g, repairer_coord, target_coord) ==
  LET repairer_unit == get(g, repairer_coord)
      target_unit == get(g, target_coord)
  IN  IF ~is_adjacent(repairer_coord, target_coord)
      THEN Ret(g, FALSE, "repair_not_adjacent")
      ELSE IF repairer_unit = None \/ target_unit = None
              \/ ~(repairer_unit.player = target_unit.player)
      THEN Ret(g, FALSE, "not_friendly")
      ELSE IF target_unit.health = MaxHealth
      THEN Ret(g, FALSE, "already_at_maximum")
      ELSE IF repair_amount(repairer_unit, target_unit) = 0
      THEN Ret(g, FALSE, "cannot_repair")
      ELSE Ret(set(g, target_coord,
                   UnitModHealth(target_unit, repair_amount(repairer_unit, target_unit))),
               TRUE, "repaired")

\* Game.repair
repair(g, repairer_coord, target_coord) ==
  LET repairer_unit == get(g, repairer_coord)
      target_unit == get(g, target_coord)
  IN  IF ~is_adjacent(repairer_coord, target_coord)
      THEN Ret(g, FALSE, "repair_not_adjacent")
      ELSE IF repairer_unit = None \/ target_unit = None
              \/ ~(repairer_unit.player = target_unit.player)
      THEN Ret(g, FALSE, "not_friendly")
      ELSE IF repair_amount(repairer_unit, target_unit) = 0
      THEN Ret(g, FALSE, "cannot_repair")
      ELSE IF target_unit.health = MaxHealth
      THEN Ret(g, FALSE, "already_at_maximum")
      ELSE Ret(set(g, target_coord,
                   UnitModHealth(target_unit, repair_amount(repairer_unit, target_unit))),
               TRUE, "repaired")

\* is_ai_self_destruct that marks the player to move, whoever owns the AI
is_ai_self_destruct_of_mover(g, player) ==
  IF g.next_player = Attacker
  THEN [g EXCEPT !.attacker_ai_self_destructed = TRUE]
  ELSE [g EXCEPT !.defender_ai_self_destructed = TRUE]

\* Game.is_ai_self_destruct
is_ai_self_destruct(g, player) ==
  IF player = Attacker
  THEN [g EXCEPT !.attacker_ai_self_destructed = TRUE]
  ELSE IF player = Defender
  THEN [g EXCEPT !.defender_ai_self_destructed = TRUE]
  ELSE g

\* the cells of Coord.iter_range(1) in iteration order (row-major)
RangeSeq(c) ==
  [i \in 1 .. 9 |-> <<c[1] - 1 + ((i - 1) \div 3), c[2] - 1 + ((i - 1) % 3)>>]

\* the damage loop of self_destruct over cells[i..]
RECURSIVE Blast(_, _, _)
Blast(g, cells, i) ==
  IF i > Len(cells) THEN g
  ELSE Blast(IF is_valid_coord(cells[i])
             THEN mod_health(g, cells[i], -BlastDamage)
             ELSE g,
             cells, i + 1)

\* self_destruct without the final set(coord, None)
self_destruct_keep_source(g, coord) ==
  LET unit == get(g, coord)
  IN  IF unit = None
      THEN Raise(g, "AttributeError")
      ELSE LET g0 == IF unit.type = AI THEN is_ai_self_destruct(g, unit.player) ELSE g
           IN  IF ~is_alive(unit)
               THEN Ret(g0, FALSE, "invalid_self_destruct")
               ELSE Ret(Blast(g0, RangeSeq(coord), 1), TRUE, "self_destructed")

\* self_destruct without the call of is_ai_self_destruct
self_destruct_no_flag(g, coord) ==
  LET unit == get(g, coord)
  IN  IF unit = None
      THEN Raise(g, "AttributeError")
      ELSE IF ~is_alive(unit)
      THEN Ret(g, FALSE, "invalid_self_destruct")
      ELSE Ret(set(Blast(g, RangeSeq(coord), 1), coord, None), TRUE, "self_destructed")

\* self_destruct that refuses a unit its own blast would destroy
self_destruct_spares_weak(g, coord) ==
  LET unit == get(g, coord)
  IN  IF unit = None
      THEN Raise(g, "AttributeError")
      ELSE LET g0 == IF unit.type = AI THEN is_ai_self_destruct(g, unit.player) ELSE g
           IN  IF ~is_alive(unit) \/ unit.health <= BlastDamage
               THEN Ret(g0, FALSE, "invalid_self_destruct")
               ELSE Ret(set(Blast(g0, RangeSeq(coord), 1), coord, None),
                        TRUE, "self_destructed")

\* Game.self_destruct
self_destruct(g, coord) ==
  LET unit == get(g, coord)
  IN  IF unit = None
      \* unit.type on None
      THEN Raise(g, "AttributeError")
      ELSE LET g0 == IF unit.type = AI THEN is_ai_self_destruct(g, unit.player) ELSE g
           IN  IF ~is_alive(unit)
               THEN Ret(g0, FALSE, "invalid_self_destruct")
               ELSE Ret(set(Blast(g0, RangeSeq(coord), 1), coord, None),
                        TRUE, "self_destructed")

\* perform_move that places the unit before is_movement_valid is asked
perform_move_moves_first(g, src, dst) ==
  LET src_unit == get(g, src)
      dst_unit == get(g, dst)
  IN  IF src = dst
      THEN self_destruct(g, src)
      ELSE IF dst_unit = None
      THEN LET v == is_valid_move(g, src, dst)
           IN  IF v.success
               THEN LET m == is_movement_valid(g, src, dst)
                        moved == set(set(g, dst, src_unit), src, None)
                    IN  IF m.success
                        THEN Ret(moved, TRUE, "moved")
                        ELSE Ret(moved, FALSE, m.reason)
               ELSE Ret(g, FALSE, v.reason)
      ELSE IF src_unit = None
      THEN Raise(g, "AttributeError")
      ELSE IF dst_unit.player # src_unit.player
      THEN attack(g, src, dst)
      ELSE repair(g, src, dst)

\* perform_move that takes every occupied destination for an adversary
perform_move_attacks_any_unit(g, src, dst) ==
  LET src_unit == get(g, src)
      dst_unit == get(g, dst)
  IN  IF src = dst
      THEN self_destruct(g, src)
      ELSE IF dst_unit = None
      THEN LET v == is_valid_move(g, src, dst)
           IN  IF v.success
               THEN LET m == is_movement_valid(g, src, dst)
                    IN  IF m.success
                        THEN Ret(set(set(g, dst, src_unit), src, None), TRUE, "moved")
                        ELSE Ret(g, FALSE, m.reason)
               ELSE Ret(g, FALSE, v.reason)
      ELSE IF src_unit = None
      THEN Raise(g, "AttributeError")
      ELSE attack(g, src, dst)

\* perform_move whose move puts a new unit of the same owner and kind, at
\* full health, on the destination
perform_move_places_new_unit(g, src, dst) ==
  LET src_unit == get(g, src)
      dst_unit == get(g, dst)
  IN  IF src = dst
      THEN self_destruct(g, src)
      ELSE IF dst_unit = None
      THEN LET v == is_valid_move(g, src, dst)
           IN  IF v.success
               THEN LET m == is_movement_valid(g, src, dst)
                    IN  IF m.success
                        THEN Ret(set(set(g, dst, Unit(src_unit.player, src_unit.type, MaxHealth)),
                                     src, None), TRUE, "moved")
                        ELSE Ret(g, FALSE, m.reason)
               ELSE Ret(g, FALSE, v.reason)
      ELSE IF src_unit = None
      THEN Raise(g, "AttributeError")
      ELSE IF dst_unit.player # src_unit.player
      THEN attack(g, src, dst)
      ELSE repair(g, src, dst)

\* Game.perform_move
perform_move(g, src, dst) ==
  LET src_unit == get(g, src)
      dst_unit == get(g, dst)
  IN  IF src = dst
      THEN self_destruct(g, src)
      ELSE IF dst_unit = None
      THEN LET v == is_valid_move(g, src, dst)
           IN  IF v.success
               THEN LET m == is_movement_valid(g, src, dst)
                    IN  IF m.success
                        THEN Ret(set(set(g, dst, src_unit), src, None), TRUE, "moved")
                        ELSE Ret(g, FALSE, m.reason)
               ELSE Ret(g, FALSE, v.reason)
      ELSE IF src_unit = None
      \* src_unit.player on None
      THEN Raise(g, "AttributeError")
      ELSE IF dst_unit.player # src_unit.player
      THEN attack(g, src, dst)
      ELSE repair(g, src, dst)

\* next_turn that passes the turn without counting it
next_turn_keeps_count(g) == [g EXCEPT !.next_player = PlayerNext(g.next_player)]

\* next_turn that counts the turn and leaves the same player to act
next_turn_keeps_player(g) == [g EXCEPT !.turns_played = g.turns_played + 1]

\* Game.next_turn
next_turn(g) ==
  [g EXCEPT !.next_player = IF g.next_player = Attacker THEN Defender ELSE Attacker,
            !.turns_played = g.turns_played + 1]

\* Game.player_units: the player's units in row-major order, as coordinates
player_units(g, player) ==
  SelectSeq(CellSeq, LAMBDA c : g.board[c] # None /\ g.board[c].player = player)

\* Game.check_zero_units
check_zero_units(g) == \A c \in Cells : g.board[c] = None

\* the candidates of one unit: the in-board adjacent cells accepted by
\* is_valid_move, then the self-destruct pair
UnitCandidates(g, src) ==
  LET adj == iter_adjacent(src)
      pairs == [i \in 1 .. Len(adj) |-> <<src, adj[i]>>]
  IN  SelectSeq(pairs, LAMBDA m : is_valid_move(g, m[1], m[2]).success)
      \o << <<src, src>> >>

\* the unit-type order move_candidates iterates in
TypeOrder == <<Firewall, Program, Tech, Virus, AI>>

RECURSIVE ConcatCandidates(_, _, _)
ConcatCandidates(g, srcs, i) ==
  IF i > Len(srcs) THEN << >>
  ELSE UnitCandidates(g, srcs[i]) \o ConcatCandidates(g, srcs, i + 1)

\* move_candidates over the units of both players
move_candidates_of_both_players(g) ==
  LET units == player_units(g, Attacker) \o player_units(g, Defender)
      OfType(t) == ConcatCandidates(g, SelectSeq(units, LAMBDA c : g.board[c].type = t), 1)
  IN  OfType(TypeOrder[1]) \o OfType(TypeOrder[2]) \o OfType(TypeOrder[3])
      \o OfType(TypeOrder[4]) \o OfType(TypeOrder[5])

\* Game.move_candidates, as the sequence it yields
move_candidates(g) ==
  LET units == player_units(g, g.next_player)
      OfType(t) == ConcatCandidates(g, SelectSeq(units, LAMBDA c : g.board[c].type = t), 1)
  IN  OfType(TypeOrder[1]) \o OfType(TypeOrder[2]) \o OfType(TypeOrder[3])
      \o OfType(TypeOrder[4]) \o OfType(TypeOrder[5])

\* the value has_winner returns when the game goes on (Python None)
NoWinner == "NoWinner"

\* has_winner with the has_ai rules ahead of the max_turns rule
has_winner_flags_first(g) ==
  IF check_zero_units(g) THEN Defender
  ELSE IF ~g.attacker_has_ai THEN Defender
  ELSE IF ~g.defender_has_ai THEN Attacker
  ELSE IF g.turns_played > g.options.max_turns THEN Defender
  ELSE IF Len(move_candidates(g)) = 0 THEN PlayerNext(g.next_player)
  ELSE IF g.attacker_ai_self_destructed THEN Defender
  ELSE IF g.defender_ai_self_destructed THEN Attacker
  ELSE NoWinner

\* Game.has_winner
has_winner(g) ==
  IF check_zero_units(g) THEN Defender
  ELSE IF g.turns_played > g.options.max_turns THEN Defender
  ELSE IF ~g.attacker_has_ai THEN Defender
  ELSE IF ~g.defender_has_ai THEN Attacker
  ELSE IF Len(move_candidates(g)) = 0
  THEN (IF g.next_player = Attacker THEN Defender ELSE Attacker)
  ELSE IF g.attacker_ai_self_destructed THEN Defender
  ELSE IF g.defender_ai_self_destructed THEN Attacker
  ELSE NoWinner

\* Game.is_finished
is_finished(g) == has_winner(g) # NoWinner

\* ------------------------------------------------------------------------
\* Heuristics
\* ------------------------------------------------------------------------

RECURSIVE SumSeq(_, _)
SumSeq(s, i) == IF i > Len(s) THEN 0 ELSE s[i] + SumSeq(s, i + 1)

\* Game.count_units
count_units(g, unit_type, player) ==
  Cardinality({c \in Cells : g.board[c] # None /\ g.board[c].type = unit_type
                             /\ g.board[c].player = player})

\* Game.heuristic_zero
heuristic_zero(g, player) ==
  3 * count_units(g, Virus, player) + 3 * count_units(g, Tech, player)
  + 3 * count_units(g, Firewall, player) + 3 * count_units(g, Program, player)
  + 9999 * count_units(g, AI, player)

\* UNIT_MULTIPLIERS of heuristic_one
UnitMultiplier(t) ==
  IF t = AI THEN 900 ELSE IF t \in {Virus, Tech} THEN 60 ELSE 30

\* Game.heuristic_one
heuristic_one(g, player) ==
  LET units == player_units(g, player)
  IN  SumSeq([i \in 1 .. Len(units) |->
                UnitMultiplier(g.board[units[i]].type) * g.board[units[i]].health], 1)

\* Game.can_heal
can_heal(src_unit, dst_unit) ==
  /\ dst_unit.player = src_unit.player
  /\ dst_unit.type \in {Virus, Tech}
  /\ dst_unit.health < 9

\* Game.can_attack
can_attack(src_unit, dst_unit) == dst_unit.player # src_unit.player

\* what one occupied neighbour adds to a unit's score in evaluate_*_unit,
\* and whether the neighbour loop breaks after it
NeighbourBonus(unit, dst_unit) ==
  LET Stop(n) == [pts |-> n, stop |-> TRUE]
      Go(n) == [pts |-> n, stop |-> FALSE]
  IN  CASE unit.type = AI ->
             IF can_heal(unit, dst_unit) THEN Stop(5)
             ELSE IF can_attack(unit, dst_unit) THEN Stop(20)
             ELSE Go(0)
        [] unit.type = Virus ->
             IF can_attack(unit, dst_unit)
             THEN (IF dst_unit.type = AI THEN Stop(20 * 1000) ELSE Stop(20 * 2))
             ELSE Go(0)
        [] unit.type = Tech ->
             IF can_heal(unit, dst_unit) THEN Stop(20)
             ELSE IF can_attack(unit, dst_unit) /\ dst_unit.type = Virus THEN Stop(20 * 2)
             ELSE Go(0)
        [] unit.type = Firewall ->
             IF dst_unit.player # unit.player /\ dst_unit.type \in {AI, Program}
             THEN Go(10)
             ELSE IF can_attack(unit, dst_unit) THEN Stop(5)
             ELSE Go(0)
        [] OTHER ->
             IF can_attack(unit, dst_unit) THEN Stop(20) ELSE Go(0)

\* the neighbour loop of evaluate_*_unit over adj[i..]
RECURSIVE NeighbourScan(_, _, _, _)
NeighbourScan(g, unit, adj, i) ==
  IF i > Len(adj) THEN 0
  ELSE LET dst_unit == get(g, adj[i])
       IN  IF dst_unit = None
           THEN NeighbourScan(g, unit, adj, i + 1)
           ELSE LET b == NeighbourBonus(unit, dst_unit)
                IN  b.pts + (IF b.stop THEN 0 ELSE NeighbourScan(g, unit, adj, i + 1))

\* evaluate_ai_unit, evaluate_virus_unit, evaluate_tech_unit,
\* evaluate_firewall_unit, evaluate_program_unit
evaluate_unit(g, src_coord) ==
  LET unit == g.board[src_coord]
  IN  (IF unit.type = AI THEN 1000 ELSE 5) * unit.health
      + NeighbourScan(g, unit, iter_adjacent(src_coord), 1)

\* Game.heuristic_two
heuristic_two(g, player) ==
  LET units == player_units(g, player)
  IN  SumSeq([i \in 1 .. Len(units) |-> evaluate_unit(g, units[i])], 1)

\* the value seen from the player to move: positive when the mover is ahead
evaluate_board_for_mover(g) ==
  LET h(player) ==
        CASE g.options.heuristic = 0 -> heuristic_zero(g, player)
          [] g.options.heuristic = 1 -> heuristic_one(g, player)
          [] g.options.heuristic = 2 -> heuristic_two(g, player)
          [] OTHER -> 0
  IN  h(g.next_player) - h(PlayerNext(g.next_player))

\* Game.evaluate_board
evaluate_board(g) ==
  LET h(player) ==
        CASE g.options.heuristic = 0 -> heuristic_zero(g, player)
          [] g.options.heuristic = 1 -> heuristic_one(g, player)
          [] g.options.heuristic = 2 -> heuristic_two(g, player)
          [] OTHER -> 0
  IN  h(Attacker) - h(Defender)

\* ------------------------------------------------------------------------
\* Search
\* ------------------------------------------------------------------------

\* the move of a search result that has none (Python None)
NoMove == << >>

\* the children list without the discard: a child for every candidate, the
\* rejected ones with the state as it was
ChildrenUndiscarded(g) ==
  LET cands == move_candidates(g)
  IN  [i \in 1 .. Len(cands) |->
         [move |-> cands[i], g |-> perform_move(g, cands[i][1], cands[i][2]).g]]

\* Game.clone_and_move over move_candidates: the (move, simulated_game)
\* pairs of the candidates perform_move accepts, in generation order
Children(g) ==
  LET cands == move_candidates(g)
      tried == [i \in 1 .. Len(cands) |->
                  [move |-> cands[i], r |-> perform_move(g, cands[i][1], cands[i][2])]]
      kept == SelectSeq(tried, LAMBDA t : t.r.success)
  IN  [i \in 1 .. Len(kept) |-> [move |-> kept[i].move, g |-> kept[i].r.g]]

Max(a, b) == IF a > b THEN a ELSE b
Min(a, b) == IF a < b THEN a ELSE b

\* the cut-off test with its comparison turned round
PruneReversed(alpha, beta) == alpha <= beta

\* the cut-off test of the pruning loops
Prune(alpha, beta) == beta <= alpha

RECURSIVE minimax_alpha_beta(_, _, _, _, _, _)
RECURSIVE MaxLoop(_, _, _, _, _, _, _, _, _)
RECURSIVE MinLoop(_, _, _, _, _, _, _, _, _)

\* the maximizing loop in which a later child of equal value replaces the
\* best move
MaxLoopLastBest(children, i, depth, alpha, beta, alpha_beta, max_eval, best_move, calls) ==
  IF i > Len(children)
  THEN [score |-> max_eval, move |-> best_move, calls |-> calls]
  ELSE LET simulated_game == [children[i].g EXCEPT !.next_player = Defender]
           sub == minimax_alpha_beta(simulated_game, depth - 1, alpha, beta,
                                     FALSE, alpha_beta)
           eval_value == sub.score
           better == eval_value >= max_eval
           max_eval1 == IF better THEN eval_value ELSE max_eval
           best_move1 == IF better THEN children[i].move ELSE best_move
           alpha1 == IF alpha_beta THEN Max(alpha, eval_value) ELSE alpha
       IN  IF alpha_beta /\ Prune(alpha1, beta)
           THEN [score |-> max_eval1, move |-> best_move1, calls |-> calls + sub.calls]
           ELSE MaxLoop(children, i + 1, depth, alpha1, beta, alpha_beta,
                        max_eval1, best_move1, calls + sub.calls)

\* the maximizing loop of minimax_alpha_beta over children[i..]; calls counts
\* the calls of minimax_alpha_beta made so far below this node, itself included
MaxLoop(children, i, depth, alpha, beta, alpha_beta, max_eval, best_move, calls) ==
  IF i > Len(children)
  THEN [score |-> max_eval, move |-> best_move, calls |-> calls]
  ELSE LET simulated_game == [children[i].g EXCEPT !.next_player = Defender]
           sub == minimax_alpha_beta(simulated_game, depth - 1, alpha, beta,
                                     FALSE, alpha_beta)
           eval_value == sub.score
           better == eval_value > max_eval
           max_eval1 == IF better THEN eval_value ELSE max_eval
           best_move1 == IF better THEN children[i].move ELSE best_move
           alpha1 == IF alpha_beta THEN Max(alpha, eval_value) ELSE alpha
       IN  IF alpha_beta /\ Prune(alpha1, beta)
           THEN [score |-> max_eval1, move |-> best_move1, calls |-> calls + sub.calls]
           ELSE MaxLoop(children, i + 1, depth, alpha1, beta, alpha_beta,
                        max_eval1, best_move1, calls + sub.calls)

\* the minimizing loop of minimax_alpha_beta over children[i..]
MinLoop(children, i, depth, alpha, beta, alpha_beta, min_eval, best_move, calls) ==
  IF i > Len(children)
  THEN [score |-> min_eval, move |-> best_move, calls |-> calls]
  ELSE LET simulated_game == [children[i].g EXCEPT !.next_player = Attacker]
           sub == minimax_alpha_beta(simulated_game, depth - 1, alpha, beta,
                                     TRUE, alpha_beta)
           eval_value == sub.score
           better == eval_value < min_eval
           min_eval1 == IF better THEN eval_value ELSE min_eval
           best_move1 == IF better THEN children[i].move ELSE best_move
           beta1 == IF alpha_beta THEN Min(beta, eval_value) ELSE beta
       IN  IF alpha_beta /\ Prune(alpha, beta1)
           THEN [score |-> min_eval1, move |-> best_move1, calls |-> calls + sub.calls]
           ELSE MinLoop(children, i + 1, depth, alpha, beta1, alpha_beta,
                        min_eval1, best_move1, calls + sub.calls)

\* minimax_alpha_beta without the is_finished() test of its base case
minimax_without_finished_test(g, depth, alpha, beta, is_maximizing, alpha_beta) ==
  IF depth = 0
  THEN [score |-> evaluate_board(g), move |-> NoMove, calls |-> 1]
  ELSE LET children == Children(g)
       IN  IF is_maximizing
           THEN MaxLoop(children, 1, depth, alpha, beta, alpha_beta, -Inf, NoMove, 1)
           ELSE MinLoop(children, 1, depth, alpha, beta, alpha_beta, Inf, NoMove, 1)

\* Game.minimax_alpha_beta with a time budget that is never exhausted
minimax_alpha_beta(g, depth, alpha, beta, is_maximizing, alpha_beta) ==
  IF depth = 0 \/ is_finished(g)
  THEN [score |-> evaluate_board(g), move |-> NoMove, calls |-> 1]
  ELSE LET children == Children(g)
       IN  IF is_maximizing
           THEN MaxLoop(children, 1, depth, alpha, beta, alpha_beta, -Inf, NoMove, 1)
           ELSE MinLoop(children, 1, depth, alpha, beta, alpha_beta, Inf, NoMove, 1)

\* the search suggest_move runs from g
RootSearch(g, depth, alpha_beta) ==
  minimax_alpha_beta(g, depth, -Inf, Inf, g.next_player = Attacker, alpha_beta)

\* ------------------------------------------------------------------------
\* State
\* ------------------------------------------------------------------------

VARIABLES
  board,                        \* Game.board: cell -> unit or None
  next_player,                  \* Game.next_player
  turns_played,                 \* Game.turns_played
  attacker_has_ai,              \* Game._attacker_has_ai
  defender_has_ai,              \* Game._defender_has_ai
  attacker_ai_self_destructed,  \* Game._attacker_ai_self_destructed
  defender_ai_self_destructed,  \* Game._defender_ai_self_destructed
  options,                      \* Game.options
  phase,                        \* where main()'s loop stands
  winner,                       \* main()'s local winner: what has_winner last returned
  last,                         \* the call that was just made and its outcome
  plies,                        \* plies played since the position the search spec started from
  search                        \* what the last search returned

gamevars == <<board, next_player, turns_played, attacker_has_ai, defender_has_ai,
              attacker_ai_self_destructed, defender_ai_self_destructed, options>>

vars == <<board, next_player, turns_played, attacker_has_ai, defender_has_ai,
          attacker_ai_self_destructed, defender_ai_self_destructed, options,
          phase, winner, last, plies, search>>

\* the Game object as a value
G ==
  [board |-> board, next_player |-> next_player, turns_played |-> turns_played,
   attacker_has_ai |-> attacker_has_ai, defender_has_ai |-> defender_has_ai,
   attacker_ai_self_destructed |-> attacker_ai_self_destructed,
   defender_ai_self_destructed |-> defender_ai_self_destructed,
   options |-> options]

\* the Game object after the step
GNext ==
  [board |-> board', next_player |-> next_player', turns_played |-> turns_played',
   attacker_has_ai |-> attacker_has_ai', defender_has_ai |-> defender_has_ai',
   attacker_ai_self_destructed |-> attacker_ai_self_destructed',
   defender_ai_self_destructed |-> defender_ai_self_destructed',
   options |-> options']

\* the fields of the Game object are those of g
Holds(g) ==
  /\ board = g.board
  /\ next_player = g.next_player
  /\ turns_played = g.turns_played
  /\ attacker_has_ai = g.attacker_has_ai
  /\ defender_has_ai = g.defender_has_ai
  /\ attacker_ai_self_destructed = g.attacker_ai_self_destructed
  /\ defender_ai_self_destructed = g.defender_ai_self_destructed
  /\ options = g.options

\* the fields of the Game object become those of g
Becomes(g) ==
  /\ board' = g.board
  /\ next_player' = g.next_player
  /\ turns_played' = g.turns_played
  /\ attacker_has_ai' = g.attacker_has_ai
  /\ defender_has_ai' = g.defender_has_ai
  /\ attacker_ai_self_destructed' = g.attacker_ai_self_destructed
  /\ defender_ai_self_destructed' = g.defender_ai_self_destructed
  /\ options' = g.options

\* no call outstanding
Idle == [op |-> "idle", src |-> <<0, 0>>, dst |-> <<0, 0>>,
         success |-> FALSE, reason |-> "", raised |-> FALSE]

Called(op, src, dst, r) ==
  [op |-> op, src |-> src, dst |-> dst,
   success |-> r.success, reason |-> r.reason, raised |-> r.raised]

\* the starting layout with the Attacker's Program and Firewall units in
\* each other's places
StartBoardSwapped ==
  LET md == dim - 1
      placed ==
        (<<0, 0>> :> Unit(Defender, AI, 9)) @@
        (<<1, 0>> :> Unit(Defender, Tech, 9)) @@
        (<<0, 1>> :> Unit(Defender, Tech, 9)) @@
        (<<2, 0>> :> Unit(Defender, Firewall, 9)) @@
        (<<0, 2>> :> Unit(Defender, Firewall, 9)) @@
        (<<1, 1>> :> Unit(Defender, Program, 9)) @@
        (<<md, md>> :> Unit(Attacker, AI, 9)) @@
        (<<md - 1, md>> :> Unit(Attacker, Virus, 9)) @@
        (<<md, md - 1>> :> Unit(Attacker, Virus, 9)) @@
        (<<md - 2, md>> :> Unit(Attacker, Firewall, 9)) @@
        (<<md, md - 2>> :> Unit(Attacker, Firewall, 9)) @@
        (<<md - 1, md - 1>> :> Unit(Attacker, Program, 9))
  IN  [c \in Cells |-> IF c \in DOMAIN placed THEN placed[c] ELSE None]

\* Game.__post_init__: the starting layout on an empty dim x dim board
StartBoard ==
  LET md == dim - 1
      placed ==
        (<<0, 0>> :> Unit(Defender, AI, 9)) @@
        (<<1, 0>> :> Unit(Defender, Tech, 9)) @@
        (<<0, 1>> :> Unit(Defender, Tech, 9)) @@
        (<<2, 0>> :> Unit(Defender, Firewall, 9)) @@
        (<<0, 2>> :> Unit(Defender, Firewall, 9)) @@
        (<<1, 1>> :> Unit(Defender, Program, 9)) @@
        (<<md, md>> :> Unit(Attacker, AI, 9)) @@
        (<<md - 1, md>> :> Unit(Attacker, Virus, 9)) @@
        (<<md, md - 1>> :> Unit(Attacker, Virus, 9)) @@
        (<<md - 2, md>> :> Unit(Attacker, Program, 9)) @@
        (<<md, md - 2>> :> Unit(Attacker, Program, 9)) @@
        (<<md - 1, md - 1>> :> Unit(Attacker, Firewall, 9))
  IN  [c \in Cells |-> IF c \in DOMAIN placed THEN placed[c] ELSE None]

\* Game(options=opts): the dataclass defaults and __post_init__
NewGame(opts) ==
  [board |-> StartBoard, next_player |-> Attacker, turns_played |-> 1,
   attacker_has_ai |-> TRUE, defender_has_ai |-> TRUE,
   attacker_ai_self_destructed |-> FALSE, defender_ai_self_destructed |-> FALSE,
   options |-> opts]

\* ------------------------------------------------------------------------
\* Turns
\* ------------------------------------------------------------------------

\* Game.board_belongs_to_current_player
board_belongs_to_current_player(g, coord) ==
  get(g, coord) # None /\ get(g, coord).player = g.next_player

\* after a resolver call r: next_turn when it succeeded
ThenNextTurn(r) == IF r.success THEN [r EXCEPT !.g = next_turn(r.g)] ELSE r

\* human_turn that calls next_turn whatever the action returned
human_turn_always_advances(g, src, dst) ==
  LET v == is_valid_move(g, src, dst)
      r == IF v.success THEN perform_move(g, src, dst) ELSE v
  IN  [r EXCEPT !.g = next_turn(r.g)]

\* one pass of the loop of Game.human_turn on the pair read_move returned
human_turn(g, src, dst) ==
  LET v == is_valid_move(g, src, dst)
      src_unit == get(g, src)
      dst_unit == get(g, dst)
  IN  IF ~v.success
      THEN v
      ELSE IF dst_unit = None
      THEN LET m == is_movement_valid(g, src, dst)
           IN  IF m.success
               THEN ThenNextTurn(Ret(set(set(g, dst, get(g, src)), src, None), TRUE, "moved"))
               ELSE m
      ELSE IF dst_unit.player # src_unit.player
      THEN ThenNextTurn(attack(g, src, dst))
      ELSE IF src_unit.player = dst_unit.player /\ src # dst
      THEN ThenNextTurn(repair(g, src, dst))
      ELSE IF src = dst
      THEN IF board_belongs_to_current_player(g, src)
           THEN ThenNextTurn(self_destruct(g, src))
           ELSE Ret(g, FALSE, "opponents_unit")
      ELSE Ret(g, FALSE, "")

\* ------------------------------------------------------------------------
\* Positions of real games: each is the starting layout followed by the
\* listed plies, every one of them entered through human_turn
\* ------------------------------------------------------------------------

RECURSIVE Replay(_, _, _)
Replay(g, moves, i) ==
  IF i > Len(moves) \/ is_finished(g) THEN g
  ELSE LET r == human_turn(g, moves[i][1], moves[i][2])
       IN  IF r.success THEN Replay(r.g, moves, i + 1) ELSE g

\* the starting layout itself
StartMoves == << >>

\* contact after five plies, Defender to move
MidDefenderMoves ==
  <<
     <<<<3, 3>>, <<3, 2>>>>, <<<<1, 1>>, <<2, 1>>>>, <<<<2, 4>>, <<2, 4>>>>, <<<<2, 0>>, <<2, 0>>>>,
     <<<<3, 2>>, <<2, 2>>>>
  >>

\* an Attacker Virus next to the Defender AI, Attacker to move
VirusAtAIMoves ==
  <<
     <<<<4, 2>>, <<4, 1>>>>, <<<<2, 0>>, <<2, 1>>>>, <<<<2, 4>>, <<2, 3>>>>, <<<<1, 0>>, <<2, 0>>>>,
     <<<<2, 3>>, <<2, 3>>>>, <<<<2, 0>>, <<2, 0>>>>, <<<<3, 4>>, <<2, 4>>>>, <<<<2, 1>>, <<2, 2>>>>,
     <<<<3, 3>>, <<3, 2>>>>, <<<<0, 2>>, <<0, 2>>>>, <<<<2, 4>>, <<1, 4>>>>, <<<<2, 2>>, <<3, 2>>>>,
     <<<<4, 3>>, <<3, 3>>>>, <<<<1, 1>>, <<2, 1>>>>, <<<<4, 1>>, <<4, 1>>>>, <<<<2, 2>>, <<2, 2>>>>,
     <<<<1, 4>>, <<2, 4>>>>, <<<<0, 1>>, <<1, 1>>>>, <<<<3, 2>>, <<3, 2>>>>, <<<<2, 1>>, <<2, 1>>>>,
     <<<<3, 3>>, <<4, 3>>>>, <<<<1, 1>>, <<0, 1>>>>, <<<<2, 4>>, <<2, 3>>>>, <<<<0, 1>>, <<1, 1>>>>,
     <<<<2, 3>>, <<1, 3>>>>, <<<<0, 0>>, <<0, 1>>>>, <<<<4, 4>>, <<3, 4>>>>, <<<<1, 1>>, <<2, 1>>>>,
     <<<<1, 3>>, <<1, 4>>>>, <<<<2, 1>>, <<2, 2>>>>, <<<<4, 3>>, <<3, 3>>>>, <<<<2, 2>>, <<2, 3>>>>,
     <<<<3, 3>>, <<2, 3>>>>, <<<<0, 1>>, <<0, 2>>>>, <<<<1, 4>>, <<0, 4>>>>, <<<<0, 2>>, <<0, 3>>>>
  >>

\* a weak Defender AI beside the Attacker AI, a Firewall in range, Attacker to move
BlastSparesMoves ==
  <<
     <<<<4, 2>>, <<3, 2>>>>, <<<<0, 2>>, <<0, 3>>>>, <<<<2, 4>>, <<2, 3>>>>, <<<<0, 1>>, <<0, 2>>>>,
     <<<<3, 3>>, <<3, 3>>>>, <<<<2, 0>>, <<2, 1>>>>, <<<<3, 4>>, <<3, 3>>>>, <<<<0, 0>>, <<0, 1>>>>,
     <<<<4, 4>>, <<3, 4>>>>, <<<<0, 3>>, <<0, 4>>>>, <<<<4, 3>>, <<4, 4>>>>, <<<<0, 2>>, <<0, 2>>>>,
     <<<<3, 2>>, <<3, 2>>>>, <<<<1, 0>>, <<2, 0>>>>, <<<<3, 3>>, <<3, 2>>>>, <<<<1, 1>>, <<1, 2>>>>,
     <<<<3, 2>>, <<3, 3>>>>, <<<<2, 0>>, <<1, 0>>>>, <<<<3, 4>>, <<2, 4>>>>, <<<<1, 2>>, <<2, 2>>>>,
     <<<<3, 3>>, <<4, 3>>>>, <<<<2, 1>>, <<2, 1>>>>, <<<<2, 3>>, <<2, 2>>>>, <<<<2, 2>>, <<2, 3>>>>,
     <<<<2, 4>>, <<2, 3>>>>, <<<<1, 0>>, <<1, 0>>>>, <<<<4, 4>>, <<4, 4>>>>, <<<<0, 1>>, <<0, 2>>>>,
     <<<<4, 3>>, <<4, 4>>>>, <<<<0, 2>>, <<0, 3>>>>, <<<<2, 3>>, <<1, 3>>>>, <<<<0, 3>>, <<1, 3>>>>,
     <<<<4, 4>>, <<4, 4>>>>, <<<<0, 4>>, <<1, 4>>>>
  >>

\* the two AIs alone, adjacent, both at health 2, Attacker to move
TwoWeakAIsMoves ==
  <<
     <<<<4, 2>>, <<4, 1>>>>, <<<<1, 0>>, <<1, 0>>>>, <<<<4, 1>>, <<4, 1>>>>, <<<<2, 0>>, <<2, 1>>>>,
     <<<<3, 3>>, <<2, 3>>>>, <<<<0, 2>>, <<1, 2>>>>, <<<<4, 3>>, <<3, 3>>>>, <<<<0, 0>>, <<1, 0>>>>,
     <<<<4, 4>>, <<4, 3>>>>, <<<<0, 1>>, <<0, 2>>>>, <<<<2, 3>>, <<2, 2>>>>, <<<<0, 2>>, <<0, 2>>>>,
     <<<<2, 4>>, <<2, 3>>>>, <<<<2, 1>>, <<2, 2>>>>, <<<<2, 2>>, <<1, 2>>>>, <<<<1, 1>>, <<1, 1>>>>,
     <<<<2, 2>>, <<2, 1>>>>, <<<<2, 1>>, <<2, 2>>>>, <<<<3, 3>>, <<3, 3>>>>, <<<<2, 1>>, <<2, 2>>>>,
     <<<<3, 4>>, <<3, 4>>>>, <<<<1, 0>>, <<1, 1>>>>, <<<<4, 3>>, <<4, 2>>>>, <<<<1, 2>>, <<2, 2>>>>,
     <<<<4, 2>>, <<3, 2>>>>, <<<<1, 1>>, <<1, 2>>>>, <<<<3, 2>>, <<2, 2>>>>, <<<<2, 2>>, <<2, 3>>>>,
     <<<<2, 3>>, <<2, 2>>>>, <<<<2, 1>>, <<3, 1>>>>, <<<<3, 2>>, <<2, 2>>>>, <<<<1, 2>>, <<2, 2>>>>,
     <<<<3, 2>>, <<3, 1>>>>, <<<<2, 2>>, <<2, 3>>>>
  >>

\* the two AIs adjacent at health 1 and a Defender Tech, Defender to move
WeakAIsAndTechMoves ==
  <<
     <<<<2, 4>>, <<1, 4>>>>, <<<<2, 0>>, <<2, 0>>>>, <<<<4, 2>>, <<3, 2>>>>, <<<<1, 1>>, <<1, 2>>>>,
     <<<<4, 3>>, <<4, 3>>>>, <<<<1, 0>>, <<2, 0>>>>, <<<<1, 4>>, <<1, 4>>>>, <<<<2, 0>>, <<1, 0>>>>,
     <<<<3, 2>>, <<3, 1>>>>, <<<<1, 2>>, <<1, 3>>>>, <<<<3, 1>>, <<2, 1>>>>, <<<<1, 0>>, <<1, 1>>>>,
     <<<<3, 3>>, <<3, 2>>>>, <<<<1, 1>>, <<2, 1>>>>, <<<<2, 1>>, <<1, 1>>>>, <<<<1, 1>>, <<1, 2>>>>,
     <<<<3, 2>>, <<2, 2>>>>, <<<<1, 2>>, <<1, 1>>>>, <<<<2, 1>>, <<1, 1>>>>, <<<<1, 3>>, <<2, 3>>>>,
     <<<<4, 4>>, <<3, 4>>>>, <<<<2, 3>>, <<2, 2>>>>, <<<<2, 2>>, <<2, 3>>>>, <<<<0, 0>>, <<1, 0>>>>,
     <<<<4, 4>>, <<4, 3>>>>, <<<<0, 2>>, <<1, 2>>>>, <<<<2, 2>>, <<1, 2>>>>, <<<<0, 1>>, <<0, 0>>>>,
     <<<<4, 3>>, <<4, 2>>>>, <<<<1, 2>>, <<2, 2>>>>, <<<<2, 2>>, <<1, 2>>>>, <<<<2, 3>>, <<2, 2>>>>,
     <<<<2, 2>>, <<1, 2>>>>, <<<<2, 3>>, <<3, 3>>>>, <<<<3, 4>>, <<3, 3>>>>, <<<<0, 0>>, <<0, 1>>>>,
     <<<<2, 1>>, <<2, 0>>>>, <<<<0, 1>>, <<1, 1>>>>, <<<<4, 2>>, <<4, 1>>>>, <<<<1, 2>>, <<1, 2>>>>,
     <<<<3, 4>>, <<3, 4>>>>, <<<<1, 1>>, <<1, 2>>>>, <<<<2, 0>>, <<2, 0>>>>, <<<<1, 2>>, <<0, 2>>>>,
     <<<<4, 1>>, <<4, 0>>>>, <<<<1, 0>>, <<2, 0>>>>, <<<<4, 0>>, <<3, 0>>>>, <<<<2, 0>>, <<3, 0>>>>,
     <<<<3, 0>>, <<2, 0>>>>
  >>

\* the two AIs alone, the Attacker AI at health 1, Defender to move
StrongDefAIMoves ==
  <<
     <<<<3, 3>>, <<2, 3>>>>, <<<<2, 0>>, <<2, 1>>>>, <<<<4, 2>>, <<3, 2>>>>, <<<<0, 2>>, <<1, 2>>>>,
     <<<<2, 4>>, <<2, 4>>>>, <<<<1, 2>>, <<1, 2>>>>, <<<<3, 2>>, <<2, 2>>>>, <<<<2, 1>>, <<2, 2>>>>,
     <<<<2, 2>>, <<2, 1>>>>, <<<<1, 0>>, <<1, 1>>>>, <<<<4, 3>>, <<3, 3>>>>, <<<<0, 0>>, <<0, 1>>>>,
     <<<<3, 3>>, <<3, 2>>>>, <<<<0, 0>>, <<0, 1>>>>, <<<<4, 4>>, <<4, 3>>>>, <<<<0, 1>>, <<0, 1>>>>,
     <<<<3, 4>>, <<3, 4>>>>, <<<<1, 1>>, <<1, 1>>>>, <<<<3, 2>>, <<3, 2>>>>, <<<<2, 1>>, <<2, 2>>>>,
     <<<<2, 2>>, <<1, 2>>>>, <<<<0, 0>>, <<1, 0>>>>, <<<<4, 3>>, <<3, 3>>>>, <<<<1, 0>>, <<0, 0>>>>,
     <<<<2, 3>>, <<2, 2>>>>, <<<<1, 0>>, <<2, 0>>>>, <<<<2, 2>>, <<2, 1>>>>, <<<<0, 0>>, <<0, 1>>>>,
     <<<<1, 2>>, <<1, 1>>>>, <<<<2, 0>>, <<2, 1>>>>, <<<<3, 3>>, <<2, 3>>>>, <<<<2, 0>>, <<1, 0>>>>,
     <<<<1, 1>>, <<1, 0>>>>, <<<<0, 1>>, <<1, 1>>>>, <<<<2, 3>>, <<1, 3>>>>, <<<<1, 0>>, <<1, 1>>>>,
     <<<<1, 3>>, <<1, 2>>>>, <<<<1, 1>>, <<0, 1>>>>, <<<<1, 2>>, <<1, 1>>>>, <<<<0, 1>>, <<0, 2>>>>,
     <<<<1, 2>>, <<0, 2>>>>
  >>

\* four units left, an Attacker Program engaged with the Defender AI, Attacker to move
SparseAttackerMoves ==
  <<
     <<<<4, 2>>, <<4, 1>>>>, <<<<2, 0>>, <<3, 0>>>>, <<<<4, 3>>, <<4, 3>>>>, <<<<1, 1>>, <<2, 1>>>>,
     <<<<3, 3>>, <<3, 3>>>>, <<<<0, 1>>, <<1, 1>>>>, <<<<2, 4>>, <<2, 3>>>>, <<<<2, 1>>, <<3, 1>>>>,
     <<<<3, 4>>, <<2, 4>>>>, <<<<3, 0>>, <<4, 0>>>>, <<<<2, 3>>, <<2, 2>>>>, <<<<4, 0>>, <<4, 0>>>>,
     <<<<4, 4>>, <<3, 4>>>>, <<<<0, 2>>, <<0, 2>>>>, <<<<4, 1>>, <<3, 1>>>>, <<<<1, 1>>, <<0, 1>>>>,
     <<<<2, 2>>, <<2, 1>>>>, <<<<3, 1>>, <<4, 1>>>>, <<<<3, 4>>, <<2, 4>>>>, <<<<1, 0>>, <<2, 0>>>>,
     <<<<4, 1>>, <<3, 1>>>>, <<<<2, 0>>, <<2, 1>>>>, <<<<2, 1>>, <<2, 0>>>>, <<<<0, 1>>, <<0, 1>>>>,
     <<<<2, 1>>, <<2, 0>>>>, <<<<0, 0>>, <<1, 0>>>>, <<<<2, 4>>, <<1, 4>>>>, <<<<1, 0>>, <<1, 1>>>>,
     <<<<1, 4>>, <<2, 4>>>>, <<<<1, 1>>, <<2, 1>>>>
  >>

\* four units left, a Defender Firewall engaged with the Attacker AI, Defender to move
SparseDefenderMoves ==
  <<
     <<<<3, 3>>, <<3, 2>>>>, <<<<0, 2>>, <<1, 2>>>>, <<<<4, 2>>, <<4, 2>>>>, <<<<1, 2>>, <<2, 2>>>>,
     <<<<3, 4>>, <<3, 4>>>>, <<<<0, 1>>, <<0, 1>>>>, <<<<4, 3>>, <<4, 3>>>>, <<<<2, 2>>, <<3, 2>>>>,
     <<<<4, 4>>, <<3, 4>>>>, <<<<1, 1>>, <<1, 1>>>>, <<<<3, 2>>, <<2, 2>>>>, <<<<2, 0>>, <<2, 0>>>>,
     <<<<2, 4>>, <<1, 4>>>>, <<<<2, 2>>, <<3, 2>>>>, <<<<3, 4>>, <<3, 3>>>>, <<<<1, 0>>, <<2, 0>>>>,
     <<<<1, 4>>, <<1, 4>>>>, <<<<0, 0>>, <<1, 0>>>>, <<<<3, 2>>, <<2, 2>>>>, <<<<1, 0>>, <<1, 1>>>>,
     <<<<3, 2>>, <<2, 2>>>>, <<<<2, 0>>, <<2, 1>>>>, <<<<3, 3>>, <<2, 3>>>>
  >>

\* the Defender AI at health 7 beside a Tech, a Defender Program diagonal to
\* the Attacker Firewall, Defender to move
DamagedDefenderAIMoves ==
  <<
     <<<<2, 4>>, <<2, 4>>>>, <<<<0, 1>>, <<0, 1>>>>, <<<<4, 2>>, <<4, 2>>>>, <<<<2, 0>>, <<2, 0>>>>,
     <<<<3, 3>>, <<3, 2>>>>, <<<<1, 1>>, <<2, 1>>>>, <<<<3, 4>>, <<3, 4>>>>
  >>

\* ------------------------------------------------------------------------
\* Bounds
\* ------------------------------------------------------------------------

\* plies that can be played from a position before turns_played > max_turns
MaxPlies == 2

\* Options.max_depth given to the search
MaxDepth == 2

\* plies played from a position by the moves the search chose
SearchPlies == 2

\* ------------------------------------------------------------------------
\* Configurations
\* ------------------------------------------------------------------------

\* the positions games are continued from
Positions ==
  <<StartMoves, MidDefenderMoves, VirusAtAIMoves, BlastSparesMoves, TwoWeakAIsMoves,
    WeakAIsAndTechMoves, StrongDefAIMoves, SparseAttackerMoves, SparseDefenderMoves,
    DamagedDefenderAIMoves>>

\* Options.max_turns as the dataclass sets it
DefaultMaxTurns == 100

\* Options as main() fills them: without a computer player the search
\* options keep alpha_beta = False, max_depth = 0 and heuristic = 0
MakeOptions(game_type, max_turns, max_depth, alpha_beta, heuristic) ==
  IF game_type = "AttackerVsDefender"
  THEN [game_type |-> game_type, max_turns |-> max_turns, max_depth |-> 0,
        alpha_beta |-> FALSE, heuristic |-> 0]
  ELSE [game_type |-> game_type, max_turns |-> max_turns, max_depth |-> max_depth,
        alpha_beta |-> alpha_beta, heuristic |-> heuristic]

\* the game after the plies of position k
PositionGame(k, opts) == Replay(NewGame(opts), Positions[k], 1)

\* games between two human players
HumanConfigs ==
  {[pos |-> k, game_type |-> "AttackerVsDefender", alpha_beta |-> FALSE, heuristic |-> 0] :
     k \in {1, 3, 4, 5, 6, 7, 8, 9}}

\* games with a computer player
ComputerConfigs ==
  {[pos |-> k, game_type |-> gt, alpha_beta |-> ab, heuristic |-> h] :
     k \in {3, 5, 9}, gt \in {"AttackerVsComp", "CompVsDefender", "CompVsComp"},
     ab \in BOOLEAN, h \in 0 .. 2}

\* the game of a configuration, with max_turns leaving room for a number of
\* plies after its position
ConfigGame(cfg, room) ==
  PositionGame(cfg.pos,
               MakeOptions(cfg.game_type, Len(Positions[cfg.pos]) + room, MaxDepth,
                           cfg.alpha_beta, cfg.heuristic))

\* the coordinates read_move can return around the board
InputCoords == (-1 .. dim) \X (-1 .. dim)

\* main(): which turns are played through human_turn
HumanToMove(g) ==
  \/ g.options.game_type = "AttackerVsDefender"
  \/ g.options.game_type = "AttackerVsComp" /\ g.next_player = Attacker
  \/ g.options.game_type = "CompVsDefender" /\ g.next_player = Defender

\* no search made
NoSearch ==
  [depth |-> 0,
   pruned |-> [score |-> 0, move |-> NoMove, calls |-> 0],
   plain |-> [score |-> 0, move |-> NoMove, calls |-> 0]]

\* ------------------------------------------------------------------------
\* Real play: main()'s loop
\* ------------------------------------------------------------------------

Init ==
  /\ \E cfg \in HumanConfigs \cup ComputerConfigs : Holds(ConfigGame(cfg, MaxPlies))
  /\ phase = "main"
  /\ winner = NoWinner
  /\ last = Idle
  /\ plies = 0
  /\ search = NoSearch

\* a main loop that plays a turn whatever has_winner returns
MainLoopWithoutWinnerTest ==
  /\ phase = "main"
  /\ winner' = has_winner(G)
  /\ phase' = "turn"
  /\ last' = Idle
  /\ UNCHANGED <<gamevars, plies, search>>

\* top of the loop of main(): has_winner decides whether a turn is played
MainLoop ==
  /\ phase = "main"
  /\ winner' = has_winner(G)
  /\ phase' = IF has_winner(G) # NoWinner THEN "over" ELSE "turn"
  /\ last' = Idle
  /\ UNCHANGED <<gamevars, plies, search>>

\* one pass of human_turn's loop on an entered pair; a rejected entry is
\* recorded by its reason only
HumanTurn(src, dst) ==
  /\ phase = "turn"
  /\ last = Idle
  /\ HumanToMove(G)
  /\ LET r == human_turn(G, src, dst)
     IN  /\ Becomes(r.g)
         /\ last' = IF r.success THEN Called("human_turn", src, dst, r)
                    ELSE Called("human_turn", <<0, 0>>, <<0, 0>>, r)
         /\ phase' = IF r.success THEN "main" ELSE "turn"
  /\ UNCHANGED <<winner, plies, search>>

\* human_turn's loop goes back to read_move after a rejected entry
HumanRetry ==
  /\ phase = "turn"
  /\ last # Idle
  /\ last' = Idle
  /\ UNCHANGED <<gamevars, phase, winner, plies, search>>

\* suggest_move's handling of elapsed_seconds > max_time
AfterOverrun(g, overrun) ==
  IF ~overrun THEN g
  ELSE IF g.next_player = Attacker
  THEN [g EXCEPT !.attacker_has_ai = FALSE]
  ELSE [g EXCEPT !.defender_has_ai = FALSE]

\* the move suggest_move returns: the search's choice, or, when the budget
\* ran out during the search, the choice among children some of which were
\* evaluated only in part
SuggestedMoves(g, truncated) ==
  LET children == Children(g)
  IN  IF truncated /\ Len(children) > 0
      THEN {children[i].move : i \in 1 .. Len(children)}
      ELSE {RootSearch(g, g.options.max_depth, g.options.alpha_beta).move}

\* Game.computer_turn and main()'s handling of its result; overrun says
\* whether suggest_move measured elapsed_seconds > max_time
ComputerTurn(truncated) ==
  /\ phase = "turn"
  /\ last = Idle
  /\ ~HumanToMove(G)
  /\ \E mv \in SuggestedMoves(G, truncated), overrun \in BOOLEAN :
       LET g1 == AfterOverrun(G, overrun)
       IN  IF mv = NoMove \/ is_finished(g1)
           THEN /\ Becomes(g1)
                /\ last' = Called("computer_turn", <<0, 0>>, <<0, 0>>, Ret(g1, FALSE, "no_move"))
                /\ phase' = "exit"
           ELSE LET r == ThenNextTurn(perform_move(g1, mv[1], mv[2]))
                IN  /\ Becomes(r.g)
                    /\ last' = Called("computer_turn", mv[1], mv[2], r)
                    /\ phase' = "main"
  /\ UNCHANGED <<winner, plies, search>>

Next ==
  \/ MainLoop
  \/ \E src \in InputCoords, dst \in InputCoords : HumanTurn(src, dst)
  \/ HumanRetry
  \/ \E truncated \in BOOLEAN : ComputerTurn(truncated)

Spec == Init /\ [][Next]_vars

\* main() goes round its loop for as long as it can
SpecLive == Spec /\ WF_vars(MainLoop)

\* ------------------------------------------------------------------------
\* The search on its own: both settings of alpha_beta from the same state
\* ------------------------------------------------------------------------

InitSearch ==
  /\ \E k \in 1 .. Len(Positions), h \in 0 .. 2 :
       Holds(PositionGame(k, MakeOptions("CompVsComp", DefaultMaxTurns, MaxDepth, TRUE, h)))
  /\ phase = "search"
  /\ winner = NoWinner
  /\ last = Idle
  /\ plies = 0
  /\ search = NoSearch

\* minimax_alpha_beta from the current state as suggest_move starts it, once
\* with alpha_beta = True and once with alpha_beta = False
RunSearch(depth) ==
  /\ phase = "search"
  /\ search = NoSearch
  /\ search' = [depth |-> depth,
                pruned |-> RootSearch(G, depth, TRUE),
                plain |-> RootSearch(G, depth, FALSE)]
  /\ UNCHANGED <<gamevars, phase, winner, last, plies>>

\* computer_turn: the game goes on by the move the search chose
SearchPly ==
  /\ phase = "search"
  /\ plies < SearchPlies
  /\ search.depth > 0
  /\ search.pruned.move # NoMove
  /\ ~is_finished(G)
  /\ LET mv == search.pruned.move
         r == ThenNextTurn(perform_move(G, mv[1], mv[2]))
     IN  Becomes(r.g)
  /\ plies' = plies + 1
  /\ search' = NoSearch
  /\ UNCHANGED <<phase, winner, last>>

NextSearch ==
  \/ \E depth \in 1 .. MaxDepth : RunSearch(depth)
  \/ SearchPly

SpecSearch == InitSearch /\ [][NextSearch]_vars

\* ------------------------------------------------------------------------
\* Direct calls on a Game object: a caller sets a game up at one of the
\* positions and makes one call of a resolver with coordinates of its choice
\* ------------------------------------------------------------------------

InitApi ==
  /\ \E k \in 1 .. Len(Positions) :
       Holds(PositionGame(k, MakeOptions("AttackerVsDefender", DefaultMaxTurns, 0, FALSE, 0)))
  /\ phase = "api"
  /\ winner = NoWinner
  /\ last = Idle
  /\ plies = 0
  /\ search = NoSearch

\* the pairs whose destination lies within two rows and two columns of the source
NearPairs ==
  {<<src, <<src[1] + dr, src[2] + dc>>>> : src \in InputCoords, dr \in -2 .. 2, dc \in -2 .. 2}

\* a call that returned r: the state it left and the record of the call
ApiCall(op, src, dst, r) ==
  /\ phase = "api"
  /\ Becomes(r.g)
  /\ last' = Called(op, src, dst, r)
  /\ phase' = "called"
  /\ UNCHANGED <<winner, plies, search>>

ApiPerformMove(src, dst) == ApiCall("perform_move", src, dst, perform_move(G, src, dst))

ApiAttack(src, dst) == ApiCall("attack", src, dst, attack(G, src, dst))

ApiRepair(src, dst) == ApiCall("repair", src, dst, repair(G, src, dst))

ApiSelfDestruct(src) == ApiCall("self_destruct", src, src, self_destruct(G, src))

ApiIsMovementValid(src, dst) ==
  ApiCall("is_movement_valid", src, dst, is_movement_valid(G, src, dst))

NextApi ==
  \/ \E src \in InputCoords, dst \in InputCoords : ApiPerformMove(src, dst)
  \/ \E pair \in NearPairs : ApiAttack(pair[1], pair[2])
  \/ \E pair \in NearPairs : ApiRepair(pair[1], pair[2])
  \/ \E src \in InputCoords : ApiSelfDestruct(src)
  \/ \E pair \in NearPairs : ApiIsMovementValid(pair[1], pair[2])

SpecApi == InitApi /\ [][NextApi]_vars

\* ------------------------------------------------------------------------
\* A repair between any two units: Game.set puts a repairer and a target of
\* any owner, kind and health on two adjacent cells that the starting layout
\* leaves empty, and Game.repair is called on them
\* ------------------------------------------------------------------------

\* the units that can stand on a board
Units == {Unit(p, t, h) : p \in Player, t \in {AI, Tech, Virus, Program, Firewall},
                         h \in 1 .. MaxHealth}

RepairerCell == <<2, 2>>
TargetCell == <<2, 3>>

\* a new game after game.set(RepairerCell, u) and game.set(TargetCell, t)
UnitPairGame(u, t) ==
  set(set(NewGame(MakeOptions("AttackerVsDefender", DefaultMaxTurns, 0, FALSE, 0)),
          RepairerCell, u),
      TargetCell, t)

InitUnits ==
  /\ \E u \in Units, t \in Units : Holds(UnitPairGame(u, t))
  /\ phase = "units"
  /\ winner = NoWinner
  /\ last = Idle
  /\ plies = 0
  /\ search = NoSearch

\* game.repair(RepairerCell, TargetCell)
UnitsRepair ==
  /\ phase = "units"
  /\ LET r == repair(G, RepairerCell, TargetCell)
     IN  /\ Becomes(r.g)
         /\ last' = Called("repair", RepairerCell, TargetCell, r)
  /\ phase' = "called"
  /\ UNCHANGED <<winner, plies, search>>

NextUnits == UnitsRepair

SpecUnits == InitUnits /\ [][NextUnits]_vars

\* ------------------------------------------------------------------------
\* The expansion step of the search with object identities. Every Unit
\* object carries an id; an in-place change of a Unit (mod_health) is seen by
\* every board that holds the object with that id
\* ------------------------------------------------------------------------

\* the game with the Unit object of cell c named <<dim * row + col>>
WithObjectIds(g) ==
  [g EXCEPT !.board =
     [c \in Cells |->
        IF g.board[c] = None THEN None
        ELSE [player |-> g.board[c].player, type |-> g.board[c].type,
              health |-> g.board[c].health, id |-> <<dim * c[1] + c[2]>>]]]

\* the game without the names of its Unit objects
WithoutObjectIds(g) ==
  [g EXCEPT !.board =
     [c \in Cells |->
        IF g.board[c] = None THEN None
        ELSE Unit(g.board[c].player, g.board[c].type, g.board[c].health)]]

\* the ids of the Unit objects on the board of g
ObjectIds(g) == {g.board[c].id : c \in {d \in Cells : g.board[d] # None}}

\* clone that copies the Game but keeps the Unit objects of the original
clone_sharing_units(g, n) == g

\* Game.clone, the n-th copy made during an expansion: copy.copy gives a new
\* Game with the same field values, copy.deepcopy a new board whose Unit
\* objects are new objects (the copy n of each original)
clone(g, n) ==
  [g EXCEPT !.board =
     [c \in Cells |->
        IF g.board[c] = None THEN None
        ELSE [g.board[c] EXCEPT !.id = Append(@, n)]]]

\* g as it reads once resolvers have run on the games of others, one after
\* the other: a Unit object of g that one of them still holds has the health
\* the last of them gave it
SeenAfter(g, others) ==
  LET touched == UNION {ObjectIds(others[k]) : k \in 1 .. Len(others)}
  IN  [g EXCEPT !.board =
         [c \in Cells |->
            IF g.board[c] = None \/ g.board[c].id \notin touched THEN g.board[c]
            ELSE LET held == {kd \in (1 .. Len(others)) \X Cells :
                                /\ others[kd[1]].board[kd[2]] # None
                                /\ others[kd[1]].board[kd[2]].id = g.board[c].id}
                     kd == CHOOSE x \in held : \A y \in held : y[1] <= x[1]
                 IN  others[kd[1]].board[kd[2]]]]

NoExpansion == [ancestors |-> << >>, children |-> << >>, candidates |-> << >>, i |-> 0]

InitClone ==
  /\ \E k \in 1 .. Len(Positions) :
       Holds(WithObjectIds(PositionGame(k, MakeOptions("CompVsComp", DefaultMaxTurns,
                                                       MaxDepth, TRUE, 0))))
  /\ phase = "clone"
  /\ winner = NoWinner
  /\ last = Idle
  /\ plies = 0
  /\ search = NoExpansion

\* minimax_alpha_beta on self below its base case: the candidates of the
\* children comprehension
Expand ==
  /\ phase = "clone"
  /\ plies < MaxDepth
  /\ ~is_finished(G)
  /\ search' = [search EXCEPT !.children = << >>, !.candidates = move_candidates(G), !.i = 1]
  /\ phase' = "expanding"
  /\ UNCHANGED <<gamevars, winner, last, plies>>

\* one candidate of the children comprehension: clone_and_move is called
\* once in the filter and once for the element; self, its ancestors and the
\* children built so far are read again after each call
CloneAndMove ==
  /\ phase = "expanding"
  /\ search.i <= Len(search.candidates)
  /\ \E mv \in {search.candidates[search.i]} :
     \E probe \in {perform_move(clone(G, 2 * search.i - 1), mv[1], mv[2])} :
     \E self1 \in {SeenAfter(G, <<probe.g>>)} :
     \E kept \in {perform_move(clone(self1, 2 * search.i), mv[1], mv[2])} :
     \E touched \in {IF probe.success THEN <<probe.g, kept.g>> ELSE <<probe.g>>} :
       /\ Becomes(SeenAfter(G, touched))
       /\ search' =
            [ancestors |-> [k \in 1 .. Len(search.ancestors) |->
                              SeenAfter(search.ancestors[k], touched)],
             children |->
               [k \in 1 .. Len(search.children) |->
                  [move |-> search.children[k].move,
                   g |-> SeenAfter(search.children[k].g, touched)]]
               \o (IF probe.success THEN <<[move |-> mv, g |-> kept.g]>> ELSE << >>),
             candidates |-> search.candidates,
             i |-> search.i + 1]
  /\ phase' = IF search.i = Len(search.candidates) THEN "expanded" ELSE "expanding"
  /\ UNCHANGED <<winner, last, plies>>

\* the recursive call on child i, after simulated_game.next_player is set
\* to the other player
Descend(i) ==
  /\ phase = "expanded"
  /\ plies + 1 < MaxDepth
  /\ i \in 1 .. Len(search.children)
  /\ Becomes([search.children[i].g EXCEPT !.next_player = PlayerNext(next_player)])
  /\ search' = [ancestors |-> Append(search.ancestors, G), children |-> << >>,
                candidates |-> << >>, i |-> 0]
  /\ plies' = plies + 1
  /\ phase' = "clone"
  /\ UNCHANGED <<winner, last>>

NextClone ==
  \/ Expand
  \/ CloneAndMove
  \/ \E i \in 1 .. 4 * dim * dim : Descend(i)

SpecClone == InitClone /\ [][NextClone]_vars

\* ------------------------------------------------------------------------
\* The game broker: one call of Game.get_move_from_broker on a position,
\* with the broker's answer drawn from the answers a broker can give
\* ------------------------------------------------------------------------

\* the coordinates a broker message may carry (the code does not test them)
BrokerCoords == {<<3, 3>>, <<3, 2>>, <<-1, 7>>}

\* r.json()["data"]: None, or a move tagged with a turn number
BrokerData(g) ==
  {[present |-> FALSE, turn |-> 0, from |-> <<0, 0>>, to |-> <<0, 0>>]}
    \cup [present : {TRUE},
          turn : (g.turns_played - 1) .. (g.turns_played + 2),
          from : BrokerCoords, to : BrokerCoords]

\* what one GET gives: whether options.broker is set, whether the request
\* or the decoding of the answer raises, the status code, the success field
\* and the data field
BrokerReplies(g) ==
  [configured : BOOLEAN, raised : BOOLEAN, status : {200, 500},
   success : BOOLEAN, data : BrokerData(g)]

\* the broker takes the move of whatever turn is asked for
get_move_from_broker_any_turn(g, reply) ==
  IF ~reply.configured \/ reply.raised THEN NoMove
  ELSE IF reply.status = 200 /\ reply.success /\ reply.data.present
       THEN <<reply.data.from, reply.data.to>>
       ELSE NoMove

\* Game.get_move_from_broker: the move returned, NoMove for None
get_move_from_broker(g, reply) ==
  IF ~reply.configured
  THEN NoMove
  ELSE IF reply.raised
       THEN NoMove
       ELSE IF reply.status = 200 /\ reply.success
            THEN IF reply.data.present
                 THEN IF reply.data.turn = g.turns_played + 1
                      THEN <<reply.data.from, reply.data.to>>
                      ELSE NoMove
                 ELSE NoMove
            ELSE NoMove

InitBroker ==
  /\ \E k \in 1 .. Len(Positions) :
       Holds(PositionGame(k, MakeOptions("AttackerVsDefender", DefaultMaxTurns, 0, FALSE, 0)))
  /\ phase = "broker"
  /\ winner = NoWinner
  /\ last = Idle
  /\ plies = 0
  /\ search = NoSearch

\* game.get_move_from_broker(); the answer and the move returned are kept
\* in search
BrokerGet(reply) ==
  /\ phase = "broker"
  /\ search' = [reply |-> reply, move |-> get_move_from_broker(G, reply)]
  /\ last' = [Idle EXCEPT !.op = "get_move_from_broker"]
  /\ phase' = "called"
  /\ UNCHANGED <<gamevars, winner, plies>>

NextBroker == \E reply \in BrokerReplies(G) : BrokerGet(reply)

SpecBroker == InitBroker /\ [][NextBroker]_vars

\* ------------------------------------------------------------------------
\* evaluate_board on the states a search visits: from a position the search
\* goes down through the children minimax_alpha_beta builds, and the board
\* of a visited state is evaluated with the heuristic of the options
\* ------------------------------------------------------------------------

\* an Attacker Firewall between a Defender Program and a Defender Firewall
\* after eight plies, Attacker to move
FirewallBetweenEnemiesMoves ==
  << <<<<3, 3>>, <<3, 2>>>>, <<<<0, 1>>, <<0, 1>>>>, <<<<3, 2>>, <<2, 2>>>>,
     <<<<1, 0>>, <<0, 0>>>>, <<<<2, 2>>, <<2, 1>>>>, <<<<0, 2>>, <<0, 2>>>>,
     <<<<2, 4>>, <<2, 4>>>>, <<<<1, 0>>, <<1, 0>>>> >>

\* the two Defender Techs side by side, both damaged, after four plies,
\* Attacker to move
TechBesideTechMoves ==
  << <<<<3, 3>>, <<3, 2>>>>, <<<<1, 1>>, <<1, 1>>>>, <<<<2, 4>>, <<2, 4>>>>,
     <<<<1, 0>>, <<1, 1>>>> >>

\* the positions evaluations start from
EvalPositions == Positions \o <<FirewallBetweenEnemiesMoves, TechBesideTechMoves>>

InitEval ==
  /\ \E k \in 1 .. Len(EvalPositions), h \in 0 .. 2 :
       Holds(Replay(NewGame(MakeOptions("CompVsComp", DefaultMaxTurns, MaxDepth, TRUE, h)),
                    EvalPositions[k], 1))
  /\ phase = "eval"
  /\ winner = NoWinner
  /\ last = Idle
  /\ plies = 0
  /\ search = NoSearch

\* the recursive call on a child: clone_and_move, then
\* simulated_game.next_player is set to the other player
EvalDescend ==
  /\ phase = "eval"
  /\ plies < MaxDepth
  /\ ~is_finished(G)
  /\ \E children \in {Children(G)} :
     \E i \in 1 .. Len(children) :
       Becomes([children[i].g EXCEPT !.next_player = PlayerNext(next_player)])
  /\ plies' = plies + 1
  /\ UNCHANGED <<phase, winner, last, search>>

\* self.evaluate_board(); the value returned is kept in search
EvalBoard ==
  /\ phase = "eval"
  /\ search' = [score |-> evaluate_board(G)]
  /\ last' = [Idle EXCEPT !.op = "evaluate_board"]
  /\ phase' = "evaluated"
  /\ UNCHANGED <<gamevars, winner, plies>>

NextEval ==
  \/ EvalDescend
  \/ EvalBoard

SpecEval == InitEval /\ [][NextEval]_vars

\* ------------------------------------------------------------------------
\* The statistics of the game object across computer turns: total_nodes and
\* non_leaf_nodes are fields of each Game object, which clone() copies into
\* the simulated games; eval_by_depth is one dictionary of the class that
\* every Game object updates
\* ------------------------------------------------------------------------

RECURSIVE non_leaf_visited(_, _, _, _, _, _)
RECURSIVE NonLeafLoop(_, _, _, _, _, _, _)

\* the children loop of minimax_alpha_beta over children[i..], counting the
\* calls below it that reach non_leaf_nodes += 1; the value of the child and
\* the count below it are bound through one-element sets so that each is
\* computed once
NonLeafLoop(children, i, depth, alpha, beta, is_maximizing, alpha_beta) ==
  IF i > Len(children) THEN 0
  ELSE LET simulated_game == [children[i].g EXCEPT !.next_player =
                                IF is_maximizing THEN Defender ELSE Attacker]
       IN  CHOOSE n \in
             {LET alpha1 == IF alpha_beta /\ is_maximizing
                            THEN Max(alpha, eval_value) ELSE alpha
                  beta1 == IF alpha_beta /\ ~is_maximizing
                           THEN Min(beta, eval_value) ELSE beta
              IN  IF alpha_beta /\ Prune(alpha1, beta1)
                  THEN below
                  ELSE below + NonLeafLoop(children, i + 1, depth, alpha1, beta1,
                                           is_maximizing, alpha_beta) :
                eval_value \in {minimax_alpha_beta(simulated_game, depth - 1, alpha, beta,
                                                   ~is_maximizing, alpha_beta).score},
                below \in {non_leaf_visited(simulated_game, depth - 1, alpha, beta,
                                            ~is_maximizing, alpha_beta)}} : TRUE

\* the number of calls of minimax_alpha_beta, in the search below and
\* including the call on g, that build a non-empty children list
non_leaf_visited(g, depth, alpha, beta, is_maximizing, alpha_beta) ==
  IF depth = 0 \/ is_finished(g) THEN 0
  ELSE CHOOSE n \in
         {IF children = << >> THEN 0
          ELSE 1 + NonLeafLoop(children, 1, depth, alpha, beta, is_maximizing, alpha_beta) :
            children \in {Children(g)}} : TRUE

\* the statistics after game.reset_statistics(), with the values of
\* eval_by_depth added up; visited and expanded describe the last search
NoStatistics ==
  [total_nodes |-> 0, eval_by_depth |-> 0, non_leaf_nodes |-> 0, visited |-> 0, expanded |-> 0]

\* the statistics read on g after g.suggest_move(): the call on g adds 1 to
\* g.total_nodes, and to g.non_leaf_nodes when g has children; the calls
\* below it run on clones and add to the clones' fields; every call adds 1
\* to an entry of the shared eval_by_depth
StatisticsAfter(stats, g) ==
  LET r == RootSearch(g, g.options.max_depth, g.options.alpha_beta)
  IN
    [total_nodes |-> stats.total_nodes + 1,
     eval_by_depth |-> stats.eval_by_depth + r.calls,
     non_leaf_nodes |-> stats.non_leaf_nodes
                        + (IF g.options.max_depth = 0 \/ is_finished(g) \/ Children(g) = << >>
                           THEN 0 ELSE 1),
     visited |-> r.calls,
     expanded |-> non_leaf_visited(g, g.options.max_depth, -Inf, Inf,
                                   g.next_player = Attacker, g.options.alpha_beta)]

StatsConfigs ==
  {[pos |-> k, depth |-> d, alpha_beta |-> ab, heuristic |-> h] :
     k \in {3, 5, 8, 9}, d \in 1 .. MaxDepth, ab \in BOOLEAN, h \in 0 .. 2}

\* main(): a game between two computer players after game.reset_statistics()
InitStats ==
  /\ \E cfg \in StatsConfigs :
       Holds(PositionGame(cfg.pos, MakeOptions("CompVsComp", DefaultMaxTurns, cfg.depth,
                                               cfg.alpha_beta, cfg.heuristic)))
  /\ phase = "stats"
  /\ winner = NoWinner
  /\ last = Idle
  /\ plies = 0
  /\ search = NoStatistics

\* Game.computer_turn with a search that ends within max_time
StatsTurn ==
  /\ phase = "stats"
  /\ plies < SearchPlies
  /\ ~is_finished(G)
  /\ \E mv \in {RootSearch(G, options.max_depth, options.alpha_beta).move} :
       /\ mv # NoMove
       /\ \E r \in {ThenNextTurn(perform_move(G, mv[1], mv[2]))} :
            /\ Becomes(r.g)
            /\ last' = Called("computer_turn", mv[1], mv[2], r)
  /\ search' = StatisticsAfter(search, G)
  /\ plies' = plies + 1
  /\ UNCHANGED <<phase, winner>>

NextStats == StatsTurn

SpecStats == InitStats /\ [][NextStats]_vars

\* ------------------------------------------------------------------------
\* Properties
\* ------------------------------------------------------------------------

\* C1: from the same state and at the same depth, the search with
\* alpha_beta = True returns the root score the search with alpha_beta = False
\* returns, and the move it selects is a root move whose value without
\* pruning is that score (it returns no move exactly when the other does)
C1_AlphaBetaEquivalence ==
  search.depth > 0 =>
    LET g == G
        children == Children(g)
        k == CHOOSE i \in 1 .. Len(children) : children[i].move = search.pruned.move
        child == [children[k].g EXCEPT !.next_player = PlayerNext(g.next_player)]
        value == minimax_alpha_beta(child, search.depth - 1, -Inf, Inf,
                                    g.next_player # Attacker, FALSE).score
    IN  /\ search.pruned.score = search.plain.score
        /\ (search.pruned.move = NoMove) <=> (search.plain.move = NoMove)
        /\ search.pruned.move # NoMove => value = search.plain.score

\* a search two plies deep in which the cut-off skipped part of the tree
C1_Witness ==
  /\ search.depth >= 2
  /\ search.pruned.move # NoMove
  /\ search.pruned.calls < search.plain.calls

\* C2: every unit stored on the board has health in 1..9
C2_HealthInRange ==
  \A c \in Cells : board[c] # None => board[c].health \in 1 .. MaxHealth

\* an attack in real play has just removed its target, and the attacker,
\* damaged in return, is still on the board
C2_Witness ==
  /\ last.op \in {"human_turn", "computer_turn"}
  /\ last.success
  /\ last.src # last.dst
  /\ get(G, last.dst) = None
  /\ get(G, last.src) # None
  /\ get(G, last.src).health < MaxHealth

\* C3: for each owner, the has_ai flag is true exactly when an AI unit of
\* that owner is on the board
C3_HasAiIffAiOnBoard ==
  /\ attacker_has_ai <=> \E c \in Cells : board[c] # None /\ board[c].type = AI
                                          /\ board[c].player = Attacker
  /\ defender_has_ai <=> \E c \in Cells : board[c] # None /\ board[c].type = AI
                                          /\ board[c].player = Defender

\* C4: a call of perform_move, attack, repair, is_movement_valid or
\* self_destruct that does not succeed leaves the board, both has_ai flags,
\* both ai_self_destructed flags, next_player and turns_played as they were
C4_FailureLeavesStateUnchanged ==
  [][(phase = "api" /\ phase' = "called" /\ ~last'.success) => UNCHANGED gamevars]_vars

\* perform_move has returned the rejection of a move by is_movement_valid
C4_Witness ==
  /\ phase = "called"
  /\ last.op = "perform_move"
  /\ ~last.success
  /\ ~last.raised
  /\ last.reason = "engaged_in_battle"

\* C5: a pass of human_turn or computer_turn flips next_player and adds one
\* to turns_played when its action succeeded and leaves both unchanged when
\* it did not; after a rejected entry human_turn asks the same player again;
\* no other step changes either
C5_TurnAdvancesIffSuccess ==
  [][LET attempt == phase = "turn" /\ last = Idle /\ last' # Idle
     IN  /\ IF attempt /\ last'.success
            THEN /\ next_player' = PlayerNext(next_player)
                 /\ turns_played' = turns_played + 1
            ELSE UNCHANGED <<next_player, turns_played>>
         /\ (attempt /\ ~last'.success /\ last'.op = "human_turn") => phase' = "turn"
    ]_vars

\* human_turn has rejected an entry of the Defender for a unit engaged in
\* battle, and the Defender is still the one to act
C5_Witness ==
  /\ phase = "turn"
  /\ last.op = "human_turn"
  /\ ~last.success
  /\ last.reason = "engaged_in_battle"
  /\ next_player = Defender

\* C6: has_winner returns the result of the first rule that matches, in the
\* order: no unit on the board -> Defender; turns_played > max_turns ->
\* Defender; Attacker has_ai false -> Defender; Defender has_ai false ->
\* Attacker; the player to act has no move candidate -> the other player;
\* Attacker's AI self-destructed -> Defender; Defender's AI self-destructed
\* -> Attacker; otherwise no winner. The winner main() reads is that value
C6_WinnerOrder ==
  LET expected ==
        IF \A c \in Cells : board[c] = None THEN Defender
        ELSE IF turns_played > options.max_turns THEN Defender
        ELSE IF ~attacker_has_ai THEN Defender
        ELSE IF ~defender_has_ai THEN Attacker
        ELSE IF move_candidates(G) = << >> THEN PlayerNext(next_player)
        ELSE IF attacker_ai_self_destructed THEN Defender
        ELSE IF defender_ai_self_destructed THEN Attacker
        ELSE NoWinner
  IN  /\ has_winner(G) = expected
      /\ phase \in {"turn", "over"} => winner = expected

\* the game is over on the max_turns rule with the Defender's AI destroyed
\* and the Attacker's AI alive: the Defender is the winner
C6_Witness ==
  /\ phase = "over"
  /\ turns_played > options.max_turns
  /\ ~defender_has_ai
  /\ attacker_has_ai
  /\ \E c \in Cells : board[c] # None
  /\ winner = Defender

C8_AttackDamagesBoth ==
  [][(/\ phase = "api" /\ phase' = "called"
      /\ last'.success
      /\ \/ last'.op = "attack"
         \/ /\ last'.op = "perform_move"
            /\ last'.src # last'.dst
            /\ get(G, last'.dst) # None
            /\ get(G, last'.src).player # get(G, last'.dst).player)
     => LET a == board[last'.src]
            t == board[last'.dst]
            to_target == Min(damage_table[a.type + 1][t.type + 1], t.health)
            to_attacker == Min(damage_table[t.type + 1][a.type + 1], a.health)
            After(u, d) == IF u.health - d = 0 THEN None
                           ELSE [u EXCEPT !.health = u.health - d]
        IN  /\ board' = [board EXCEPT ![last'.src] = After(a, to_attacker),
                                      ![last'.dst] = After(t, to_target)]
            /\ UNCHANGED <<next_player, turns_played>>]_vars

\* an attack has returned success: its target is gone and the attacker,
\* damaged in return, is still there
C8_Witness ==
  /\ phase = "called"
  /\ last.op = "attack"
  /\ last.success
  /\ board[last.dst] = None
  /\ board[last.src] # None
  /\ board[last.src].health < MaxHealth

\* C9: a successful self-destruct at cell c takes min(2, health) from every
\* unit on the cells within Chebyshev distance 1 of c, removes those that
\* reach 0, leaves c empty, and leaves every other cell as it was
C9_SelfDestructBlast ==
  [][(/\ phase = "api" /\ phase' = "called"
      /\ last'.success
      /\ \/ last'.op = "self_destruct"
         \/ last'.op = "perform_move" /\ last'.src = last'.dst)
     => \A c \in Cells :
          board'[c] =
            IF c = last'.src THEN None
            ELSE IF /\ Max(Abs(c[1] - last'.src[1]), Abs(c[2] - last'.src[2])) <= 1
                    /\ board[c] # None
            THEN IF board[c].health <= BlastDamage THEN None
                 ELSE [board[c] EXCEPT !.health = board[c].health - BlastDamage]
            ELSE board[c]]_vars

\* a self-destruct has returned success: its cell is empty, a diagonal
\* neighbour is left damaged and a unit further away is untouched
C9_Witness ==
  /\ phase = "called"
  /\ last.op = "self_destruct"
  /\ last.success
  /\ board[last.src] = None
  /\ \E c \in Cells :
       /\ Abs(c[1] - last.src[1]) = 1 /\ Abs(c[2] - last.src[2]) = 1
       /\ board[c] # None /\ board[c].health = MaxHealth - BlastDamage
  /\ \E c \in Cells :
       /\ Max(Abs(c[1] - last.src[1]), Abs(c[2] - last.src[2])) >= 2
       /\ board[c] # None /\ board[c].health = MaxHealth

\* C10: perform_move returns success = False and leaves the state unchanged
\* for every pair whose source cell holds a unit of the player who is not
\* next_player
C10_OpponentUnitRejected ==
  [][(/\ phase = "api" /\ phase' = "called"
      /\ last'.op = "perform_move"
      /\ get(G, last'.src) # None
      /\ get(G, last'.src).player # next_player)
     => (~last'.success /\ UNCHANGED gamevars)]_vars

\* C11: a call of perform_move or self_destruct whose source cell is empty
\* or outside the board returns success = False (it does not raise) and
\* leaves the state unchanged
C11_EmptySourceRejected ==
  [][(/\ phase = "api" /\ phase' = "called"
      /\ last'.op \in {"perform_move", "self_destruct"}
      /\ get(G, last'.src) = None)
     => (~last'.raised /\ ~last'.success /\ UNCHANGED gamevars)]_vars

\* C12: a move (destination empty) of an AI, a Firewall or a Program
\* succeeds only to the cell one up or one left of the source for an
\* Attacker unit, one down or one right for a Defender unit
C12_RestrictedDirections ==
  [][(/\ phase = "api" /\ phase' = "called"
      /\ last'.op \in {"perform_move", "is_movement_valid"}
      /\ last'.success
      /\ last'.src # last'.dst
      /\ get(G, last'.dst) = None
      /\ get(G, last'.src) # None
      /\ get(G, last'.src).type \in {AI, Firewall, Program})
     => LET src == last'.src
        IN  IF get(G, src).player = Attacker
            THEN last'.dst \in {<<src[1] - 1, src[2]>>, <<src[1], src[2] - 1>>}
            ELSE last'.dst \in {<<src[1] + 1, src[2]>>, <<src[1], src[2] + 1>>}]_vars

\* perform_move has moved an Attacker Program one cell to the left
C12_Witness ==
  /\ phase = "called"
  /\ last.op = "perform_move"
  /\ last.success
  /\ last.dst = <<last.src[1], last.src[2] - 1>>
  /\ get(G, last.src) = None
  /\ get(G, last.dst) # None
  /\ get(G, last.dst).type = Program
  /\ get(G, last.dst).player = Attacker

\* C13 as stated: every attempt of perform_move to move an AI, a Firewall or
\* a Program of the player to move that has an enemy unit on an orthogonally
\* adjacent cell to an empty cell of the board is rejected with the reason
\* "engaged in battle"
C13_EngagedRejectedAsEngaged ==
  [][(/\ phase = "api" /\ phase' = "called"
      /\ last'.op = "perform_move"
      /\ last'.src # last'.dst
      /\ is_valid_coord(last'.dst)
      /\ get(G, last'.dst) = None
      /\ get(G, last'.src) # None
      /\ get(G, last'.src).player = next_player
      /\ get(G, last'.src).type \in {AI, Firewall, Program}
      /\ \E c \in Cells : /\ is_adjacent(last'.src, c)
                          /\ get(G, c) # None
                          /\ get(G, c).player # get(G, last'.src).player)
     => (~last'.success /\ last'.reason = "engaged_in_battle")]_vars

\* C13: an AI, a Firewall or a Program with an enemy unit on an orthogonally
\* adjacent cell cannot be moved by perform_move to any cell, whoever owns
\* it, and the state stays as it was; for a unit of the player to move the
\* reason is "engaged in battle" exactly when the destination is a board cell
\* in a direction its owner permits, and the direction reason for any other
\* board cell. Its self-destruct and its attack on an adjacent enemy succeed,
\* and its repair of an adjacent friendly unit succeeds exactly when the
\* repair table entry is positive and the target is below maximum health
C13_EngagedCannotMove ==
  [][(/\ phase = "api" /\ phase' = "called"
      /\ last'.op = "perform_move"
      /\ get(G, last'.src) # None
      /\ get(G, last'.src).type \in {AI, Firewall, Program}
      /\ \E c \in Cells : /\ is_adjacent(last'.src, c)
                          /\ get(G, c) # None
                          /\ get(G, c).player # get(G, last'.src).player)
     => LET src == last'.src
            dst == last'.dst
            u == get(G, src)
            t == get(G, dst)
            permitted == IF u.player = Attacker
                         THEN {<<src[1] - 1, src[2]>>, <<src[1], src[2] - 1>>}
                         ELSE {<<src[1] + 1, src[2]>>, <<src[1], src[2] + 1>>}
        IN  /\ ~last'.raised
            /\ IF src = dst
               THEN last'.success
               ELSE IF t = None
               THEN /\ ~last'.success
                    /\ UNCHANGED gamevars
                    /\ (u.player = next_player /\ is_valid_coord(dst))
                       => IF dst \in permitted
                          THEN last'.reason = "engaged_in_battle"
                          ELSE last'.reason \in {"only_up_or_left", "only_down_or_right"}
               ELSE IF ~is_adjacent(src, dst)
               THEN ~last'.success
               ELSE IF t.player # u.player
               THEN last'.success /\ last'.reason = "attacked"
               ELSE last'.success <=> (repair_table[u.type + 1][t.type + 1] > 0
                                        /\ t.health < MaxHealth)]_vars

\* perform_move has refused to move a Defender AI that has an Attacker unit
\* next to it, with the reason "engaged in battle"
C13_Witness ==
  /\ phase = "called"
  /\ last.op = "perform_move"
  /\ ~last.success
  /\ last.reason = "engaged_in_battle"
  /\ get(G, last.src) # None
  /\ get(G, last.src).type = AI
  /\ get(G, last.src).player = Defender
  /\ get(G, last.dst) = None
  /\ \E c \in Cells : /\ is_adjacent(last.src, c)
                      /\ get(G, c) # None
                      /\ get(G, c).player = Attacker

\* C14: perform_move with a Virus or a Tech of the player to move (either
\* owner) and an empty destination other than the source succeeds exactly
\* when the destination is a board cell at Manhattan distance 1, whether or
\* not an enemy unit is adjacent to the source; on success the unit stands on
\* the destination, the source is empty and nothing else has changed; every
\* other destination is rejected without a change. is_movement_valid itself
\* accepts such a unit only at distance 1 and accepts every empty board cell
\* at distance 1
C14_VirusTechMoveFreely ==
  [][(/\ phase = "api" /\ phase' = "called"
      /\ last'.op \in {"perform_move", "is_movement_valid"}
      /\ last'.src # last'.dst
      /\ get(G, last'.dst) = None
      /\ get(G, last'.src) # None
      /\ get(G, last'.src).type \in {Virus, Tech})
     => LET src == last'.src
            dst == last'.dst
            u == get(G, src)
        IN  /\ ~last'.raised
            /\ last'.success => is_adjacent(src, dst)
            /\ (is_adjacent(src, dst) /\ is_valid_coord(dst)
                /\ (u.player = next_player \/ last'.op = "is_movement_valid"))
               => last'.success
            /\ last'.op = "perform_move"
               => IF last'.success
                  THEN /\ is_valid_coord(dst)
                       /\ u.player = next_player
                       /\ GNext = set(set(G, dst, u), src, None)
                  ELSE UNCHANGED gamevars]_vars

\* perform_move has moved an Attacker Virus that had a Defender unit next to
\* it to an empty cell below it
C14_Witness ==
  /\ phase = "called"
  /\ last.op = "perform_move"
  /\ last.success
  /\ last.dst = <<last.src[1] + 1, last.src[2]>>
  /\ get(G, last.src) = None
  /\ get(G, last.dst) # None
  /\ get(G, last.dst).type = Virus
  /\ get(G, last.dst).player = Attacker
  /\ \E c \in Cells : /\ is_adjacent(last.src, c)
                      /\ get(G, c) # None
                      /\ get(G, c).player = Defender

\* C15: a repair between two adjacent cells holding units of the same owner,
\* called directly or through perform_move: when the repair table entry is 0
\* it is rejected with the "cannot repair" reason, also when the target is at
\* health 9; otherwise when the target is at health 9 it is rejected with the
\* "already at maximum" reason; otherwise it succeeds and the target's health
\* grows by min(table entry, 9 - health) while nothing else changes. A
\* rejection changes nothing
C15_RepairAmountAndRejections ==
  [][(/\ phase = "api" /\ phase' = "called"
      /\ last'.op \in {"repair", "perform_move"}
      /\ is_adjacent(last'.src, last'.dst)
      /\ get(G, last'.src) # None
      /\ get(G, last'.dst) # None
      /\ get(G, last'.src).player = get(G, last'.dst).player)
     => LET u == get(G, last'.src)
            t == get(G, last'.dst)
            entry == repair_table[u.type + 1][t.type + 1]
        IN  /\ ~last'.raised
            /\ IF entry = 0
               THEN ~last'.success /\ last'.reason = "cannot_repair"
                    /\ UNCHANGED gamevars
               ELSE IF t.health = 9
               THEN ~last'.success /\ last'.reason = "already_at_maximum"
                    /\ UNCHANGED gamevars
               ELSE /\ last'.success
                    /\ GNext = set(G, last'.dst,
                                   [t EXCEPT !.health = t.health + Min(entry, 9 - t.health)])]_vars

\* a Tech has repaired the adjacent friendly AI up to health 9
C15_Witness ==
  /\ phase = "called"
  /\ last.op = "repair"
  /\ last.success
  /\ last.reason = "repaired"
  /\ get(G, last.src).type = Tech
  /\ get(G, last.dst).type = AI
  /\ get(G, last.dst).health = 9

\* a repair of a target at health 9 by a unit whose table entry for it is 0
\* has been rejected with the "cannot repair" reason
C15_WitnessBothApply ==
  /\ phase = "called"
  /\ last.op = "repair"
  /\ ~last.success
  /\ last.reason = "cannot_repair"
  /\ get(G, last.dst).health = 9

C17_AttackRepairNeedAdjacency ==
  [][(/\ phase = "api" /\ phase' = "called"
      /\ last'.op \in {"attack", "repair", "perform_move"})
     => LET src == last'.src
            dst == last'.dst
            u == get(G, src)
            t == get(G, dst)
            distance == Abs(src[1] - dst[1]) + Abs(src[2] - dst[2])
            is_attack == last'.op = "attack"
                         \/ (last'.op = "perform_move" /\ last'.reason = "attacked")
            is_repair == last'.op = "repair"
                         \/ (last'.op = "perform_move" /\ last'.reason = "repaired")
        IN  /\ (is_attack /\ last'.success)
               => (u # None /\ t # None /\ u.player # t.player /\ distance = 1)
            /\ (is_repair /\ last'.success)
               => (u # None /\ t # None /\ u.player = t.player /\ distance = 1)
            /\ (last'.op = "perform_move" /\ u # None /\ t # None /\ distance > 1)
               => (~last'.success /\ ~last'.raised /\ UNCHANGED gamevars)]_vars

\* perform_move from a unit to an enemy unit on a diagonal cell has been
\* rejected as not adjacent
C17_Witness ==
  /\ phase = "called"
  /\ last.op = "perform_move"
  /\ ~last.success
  /\ last.reason = "attack_not_adjacent"
  /\ Abs(last.src[1] - last.dst[1]) = 1
  /\ Abs(last.src[2] - last.dst[2]) = 1
  /\ get(G, last.src) # None
  /\ get(G, last.dst) # None
  /\ get(G, last.src).player # get(G, last.dst).player

\* C18: the case the claim is about does not arise: no call of computer_turn
\* ends with a move that perform_move rejected, because every move
\* suggest_move returns was accepted by perform_move on a clone of the same
\* state
C18_ProposedMoveNeverRejected ==
  ~(last.op = "computer_turn" /\ ~last.success /\ last.reason # "no_move")

\* C19 as stated: a search run by suggest_move with max_depth >= 1 returns
\* no move only from a state in which perform_move accepts no candidate
\* action of the player to move
C19_NoneOnlyWithoutCandidate ==
  (search # NoSearch /\ (search.pruned.move = NoMove \/ search.plain.move = NoMove))
    => Children(G) = << >>

\* C19: a search run by suggest_move with max_depth >= 1, with or without
\* pruning, returns no move exactly when the game is already finished in the
\* state it starts from; a state in which perform_move accepts no candidate
\* action of the player to move is finished, and in every state that is not
\* finished the move returned is one that perform_move accepts
C19_NoneOnlyWhenFinished ==
  search # NoSearch
    => /\ search.pruned.move = NoMove <=> is_finished(G)
       /\ search.plain.move = NoMove <=> is_finished(G)
       /\ Children(G) = << >> => is_finished(G)
       /\ \A mv \in {search.pruned.move, search.plain.move} \ {NoMove} :
            perform_move(G, mv[1], mv[2]).success

\* a search has returned no move from a finished state in which perform_move
\* accepts an action of the player to move
C19_Witness ==
  /\ search # NoSearch
  /\ search.depth > 0
  /\ search.pruned.move = NoMove
  /\ is_finished(G)
  /\ Children(G) # << >>

\* a search has returned a move from a state that is not finished
C19_WitnessMove ==
  /\ search # NoSearch
  /\ search.pruned.move # NoMove
  /\ ~is_finished(G)

\* C20: every clone_and_move of the expansion of a state by
\* minimax_alpha_beta, at the root and below it, leaves the state as it was
\* (board, Unit objects and their healths, has_ai flags, ai_self_destructed
\* flags, next_player, turns_played) and leaves every ancestor state and
\* every child built before as they were; the new child holds no Unit object
\* of the state, of an ancestor or of another child, and it is what
\* perform_move makes of the state as it is
C20_SearchBranchesIsolated ==
  [][(phase = "expanding" /\ search'.i = search.i + 1)
     => /\ UNCHANGED gamevars
        /\ search'.ancestors = search.ancestors
        /\ SubSeq(search'.children, 1, Len(search.children)) = search.children
        /\ Len(search'.children) > Len(search.children)
           => LET child == search'.children[Len(search'.children)]
                  r == perform_move(G, child.move[1], child.move[2])
              IN  /\ ObjectIds(child.g) \cap ObjectIds(G) = {}
                  /\ \A k \in 1 .. Len(search.ancestors) :
                       ObjectIds(child.g) \cap ObjectIds(search.ancestors[k]) = {}
                  /\ \A k \in 1 .. Len(search.children) :
                       ObjectIds(child.g) \cap ObjectIds(search.children[k].g) = {}
                  /\ r.success
                  /\ WithoutObjectIds(child.g) = WithoutObjectIds(r.g)]_vars

\* a child of the root has been expanded in its turn, and one of its own
\* children holds a unit whose health an attack has lowered
C20_Witness ==
  /\ phase = "expanded"
  /\ plies = 1
  /\ Len(search.ancestors) = 1
  /\ \E i \in 1 .. Len(search.children), c \in Cells :
       /\ board[c] # None
       /\ search.children[i].g.board[c] # None
       /\ search.children[i].g.board[c].health < board[c].health

\* C21: a computer turn, with or without an overrun of max_time, leaves the
\* state as the chosen action alone makes it: when no action is applied the
\* board, the has_ai flags, the ai_self_destructed flags, next_player and
\* turns_played are as before suggest_move was called, and otherwise they
\* are what perform_move and next_turn make of the state before the call
C21_OverrunLeavesState ==
  [][(phase = "turn" /\ last'.op = "computer_turn")
     => IF last'.success
        THEN GNext = next_turn(perform_move(G, last'.src, last'.dst).g)
        ELSE UNCHANGED gamevars]_vars

\* C22: every turn that applies an action raises turns_played by exactly 1
\* and no other step changes it; has_winner reports Defender whenever
\* turns_played > max_turns; turns_played never exceeds max_turns + 1, so
\* that at most max_turns actions are applied in a game; and unless the
\* game stays for ever in a turn that yields no accepted action, a state
\* with a winner is reached
C22_GameTerminates ==
  /\ [][turns_played' = IF last'.op \in {"human_turn", "computer_turn"} /\ last'.success
                           /\ phase = "turn"
                        THEN turns_played + 1
                        ELSE turns_played]_vars
  /\ [](turns_played > options.max_turns => has_winner(G) = Defender)
  /\ [](turns_played <= options.max_turns + 1)
  /\ (<>[](phase = "turn") \/ <>(has_winner(G) # NoWinner))

\* a game has ended on the turn limit alone: max_turns actions were applied
\* and both AIs are still alive
C22_Witness ==
  /\ phase = "over"
  /\ winner = Defender
  /\ turns_played = options.max_turns + 1
  /\ attacker_has_ai /\ defender_has_ai
  /\ ~attacker_ai_self_destructed /\ ~defender_ai_self_destructed
  /\ move_candidates(G) # << >>

\* C23: main() starts a turn only from a state in which has_winner is None,
\* and no step changes the board, the flags, next_player or turns_played of a
\* state in which has_winner is not None: once a winner exists no move,
\* attack, repair or self-destruct is applied
C23_NoActionOnceWon ==
  [][/\ (phase = "main" /\ phase' = "turn") => has_winner(G) = NoWinner
     /\ (last'.op \in {"human_turn", "computer_turn"} /\ last'.success /\ phase = "turn")
        => has_winner(G) = NoWinner
     /\ has_winner(G) # NoWinner => UNCHANGED gamevars]_vars

\* the game is over with the Attacker as winner while the Defender, who would
\* be next, still has units that could act
C23_Witness ==
  /\ phase = "over"
  /\ winner = Attacker
  /\ next_player = Defender
  /\ turns_played <= options.max_turns
  /\ move_candidates(G) # << >>

\* C24: get_move_from_broker returns a move only when the broker's data
\* carries the turn tag turns_played + 1, and then the move the data holds;
\* data tagged with any other turn number gives None; the call leaves the
\* game state as it is
C24_BrokerTurnTag ==
  [][last'.op = "get_move_from_broker"
     => /\ search'.move # NoMove
             => /\ search'.reply.data.present
                /\ search'.reply.data.turn = turns_played + 1
                /\ search'.move = <<search'.reply.data.from, search'.reply.data.to>>
        /\ (search'.reply.data.present /\ search'.reply.data.turn # turns_played + 1)
             => search'.move = NoMove
        /\ UNCHANGED gamevars]_vars

\* a broker that answered with a well-formed move for another turn, after
\* the first turn of the game
C24_Witness ==
  /\ phase = "called" /\ last.op = "get_move_from_broker"
  /\ search.reply.configured /\ ~search.reply.raised
  /\ search.reply.status = 200 /\ search.reply.success
  /\ search.reply.data.present
  /\ search.reply.data.turn = turns_played
  /\ turns_played > 1
  /\ search.move = NoMove

\* a broker whose move for turn turns_played + 1 was returned
C24_WitnessAccepted ==
  /\ phase = "called" /\ last.op = "get_move_from_broker"
  /\ search.reply.data.present
  /\ search.reply.data.turn = turns_played + 1
  /\ search.move = <<search.reply.data.from, search.reply.data.to>>

\* the number of player's units that satisfy a test on the board of the
\* current state
C25_Count(player, Test(_)) ==
  Cardinality({c \in Cells : board[c] # None /\ board[c].player = player /\ Test(board[c])})

\* sum over kinds t (from t upwards) and healths h of weight * h * number of
\* player's units of kind t and health h
RECURSIVE C25_HealthSum(_, _, _)
C25_HealthSum(player, t, h) ==
  IF t > Firewall THEN 0
  ELSE IF h > MaxHealth THEN C25_HealthSum(player, t + 1, 0)
  ELSE LET IsKind(u) == u.type = t /\ u.health = h
           weight == CASE t = AI -> 900
                       [] t \in {Virus, Tech} -> 60
                       [] t \in {Program, Firewall} -> 30
       IN  weight * h * C25_Count(player, IsKind) + C25_HealthSum(player, t, h + 1)

C25_Score(player) ==
  LET IsAI(u) == u.type = AI
      IsOther(u) == u.type # AI
  IN  CASE options.heuristic = 0 ->
             9999 * C25_Count(player, IsAI) + 3 * C25_Count(player, IsOther)
        [] options.heuristic = 1 -> C25_HealthSum(player, 0, 0)
        [] options.heuristic = 2 -> heuristic_two(G, player)

\* C25: evaluate_board returns score(Attacker) - score(Defender), with the
\* scores of e0 (9999 per AI, 3 per other unit) and e1 (health times 900 for
\* an AI, 60 for a Virus or Tech, 30 for a Program or Firewall); the value is
\* the same for either player to move and for every turn count, and the
\* evaluation changes nothing of the state
C25_EvaluateBoard ==
  [][last'.op = "evaluate_board"
     => /\ search'.score = C25_Score(Attacker) - C25_Score(Defender)
        /\ \A p \in Player, t \in {1, turns_played + 1, options.max_turns + 1} :
             evaluate_board([G EXCEPT !.next_player = p, !.turns_played = t]) = search'.score
        /\ UNCHANGED gamevars]_vars

\* an evaluation by health, with the Defender to move, of a board on which
\* the sides differ and a unit is damaged
C25_Witness ==
  /\ phase = "evaluated" /\ last.op = "evaluate_board"
  /\ options.heuristic = 1
  /\ next_player = Defender
  /\ search.score > 0
  /\ \E c \in Cells : board[c] # None /\ board[c].health < MaxHealth
  /\ Len(player_units(G, Attacker)) # Len(player_units(G, Defender))

\* C26: a game on which no action has been applied yet (turns_played = 1)
\* is in the starting state: Defender AI on (0,0), Tech on (1,0) and (0,1),
\* Firewall on (2,0) and (0,2), Program on (1,1); Attacker AI on (4,4),
\* Virus on (3,4) and (4,3), Program on (2,4) and (4,2), Firewall on (3,3);
\* every unit at health 9, every other cell empty, the Attacker to move,
\* both has_ai flags true and both ai_self_destructed flags false
C26_StartingState ==
  turns_played = 1
  => /\ board[<<0, 0>>] = [player |-> Defender, type |-> AI, health |-> 9]
     /\ board[<<1, 0>>] = [player |-> Defender, type |-> Tech, health |-> 9]
     /\ board[<<0, 1>>] = [player |-> Defender, type |-> Tech, health |-> 9]
     /\ board[<<2, 0>>] = [player |-> Defender, type |-> Firewall, health |-> 9]
     /\ board[<<0, 2>>] = [player |-> Defender, type |-> Firewall, health |-> 9]
     /\ board[<<1, 1>>] = [player |-> Defender, type |-> Program, health |-> 9]
     /\ board[<<4, 4>>] = [player |-> Attacker, type |-> AI, health |-> 9]
     /\ board[<<3, 4>>] = [player |-> Attacker, type |-> Virus, health |-> 9]
     /\ board[<<4, 3>>] = [player |-> Attacker, type |-> Virus, health |-> 9]
     /\ board[<<2, 4>>] = [player |-> Attacker, type |-> Program, health |-> 9]
     /\ board[<<4, 2>>] = [player |-> Attacker, type |-> Program, health |-> 9]
     /\ board[<<3, 3>>] = [player |-> Attacker, type |-> Firewall, health |-> 9]
     /\ \A c \in Cells \ {<<0, 0>>, <<1, 0>>, <<0, 1>>, <<2, 0>>, <<0, 2>>, <<1, 1>>,
                          <<4, 4>>, <<3, 4>>, <<4, 3>>, <<2, 4>>, <<4, 2>>, <<3, 3>>} :
          board[c] = None
     /\ DOMAIN board = (0 .. 4) \X (0 .. 4)
     /\ next_player = Attacker
     /\ attacker_has_ai /\ defender_has_ai
     /\ ~attacker_ai_self_destructed /\ ~defender_ai_self_destructed

\* a new game in its first turn, after an entry that was rejected
C26_Witness ==
  /\ turns_played = 1 /\ phase = "turn"
  /\ last.op = "human_turn" /\ ~last.success

\* C27: perform_move on a pair whose source holds a unit does what exactly
\* one of the four actions does: the self-destruct of the source when
\* src = dst; the move (legality tests, then the unit goes from src to dst)
\* when dst holds no unit; Game.attack when dst holds a unit of the other
\* owner; Game.repair when dst holds a unit of the same owner and
\* src # dst; state and verdict are those of that resolver alone
C27_OneActionPerPair ==
  [][(last'.op = "perform_move" /\ get(G, last'.src) # None)
     => LET src == last'.src
            dst == last'.dst
            is_self_destruct == src = dst
            is_move == get(G, dst) = None
            is_attack == get(G, dst) # None /\ get(G, dst).player # get(G, src).player
            is_repair == get(G, dst) # None /\ get(G, dst).player = get(G, src).player
                         /\ src # dst
            legal == is_valid_move(G, src, dst).success
                     /\ is_movement_valid(G, src, dst).success
            resolved(r) == GNext = r.g /\ last'.success = r.success
                           /\ last'.reason = r.reason /\ ~last'.raised
        IN  /\ Cardinality({k \in 1 .. 4 :
                              <<is_self_destruct, is_move, is_attack, is_repair>>[k]}) = 1
            /\ is_self_destruct => resolved(self_destruct(G, src))
            /\ is_move => /\ last'.success = legal
                          /\ ~last'.raised
                          /\ GNext = IF legal
                                     THEN [G EXCEPT !.board = [board EXCEPT ![dst] = board[src],
                                                                            ![src] = None]]
                                     ELSE G
            /\ is_attack => resolved(attack(G, src, dst))
            /\ is_repair => resolved(repair(G, src, dst))]_vars

\* a perform_move between two units of one owner that was resolved as a
\* repair
C27_Witness ==
  /\ phase = "called" /\ last.op = "perform_move" /\ last.success
  /\ last.src # last.dst
  /\ board[last.src] # None /\ board[last.dst] # None
  /\ board[last.src].player = board[last.dst].player

C29_FlagOnlyByOwnAI ==
  [][last'.op \in {"perform_move", "attack", "repair", "self_destruct", "is_movement_valid"}
     => LET unit == get(G, last'.src)
            by_ai(p) ==
              /\ \/ last'.op = "self_destruct"
                 \/ last'.op = "perform_move" /\ last'.src = last'.dst
              /\ unit # None /\ unit.type = AI /\ unit.player = p
        IN  /\ attacker_ai_self_destructed'
              <=> (attacker_ai_self_destructed \/ by_ai(Attacker))
            /\ defender_ai_self_destructed'
              <=> (defender_ai_self_destructed \/ by_ai(Defender))]_vars

\* the Defender's AI has self-destructed: the flag is set, the AI is gone
\* and defender_has_ai is still true
C29_Witness ==
  /\ phase = "called" /\ last.success
  /\ defender_ai_self_destructed /\ ~attacker_ai_self_destructed
  /\ defender_has_ai
  /\ \A c \in Cells : ~(board[c] # None /\ board[c].type = AI /\ board[c].player = Defender)

\* an AI was destroyed by the damage of an attack or of the self-destruct
\* of another unit, and no flag was set
C29_WitnessDestroyed ==
  /\ phase = "called" /\ last.success
  /\ ~attacker_ai_self_destructed /\ ~defender_ai_self_destructed
  /\ \E p \in Player :
       \A c \in Cells : ~(board[c] # None /\ board[c].type = AI /\ board[c].player = p)

\* the number of units of an owner and a kind on a board
C30_Count(b, p, t) ==
  Cardinality({c \in Cells : b[c] # None /\ b[c].player = p /\ b[c].type = t})

\* C30: no step of a game creates a unit or changes the owner or the kind
\* of one: for every owner and kind the number of units never goes up, and
\* a unit on a cell after a step was on that cell or on a neighbouring one
\* before it, with the same owner and kind; every cell of the board holds
\* one living unit or nothing, and each owner has at most one AI
C30_UnitsConserved ==
  /\ [][board' # board
        => /\ \A p \in Player, t \in {AI, Tech, Virus, Program, Firewall} :
                C30_Count(board', p, t) <= C30_Count(board, p, t)
           /\ \A c \in Cells :
                board'[c] # None
                => \E c0 \in Cells :
                     /\ Abs(c0[1] - c[1]) + Abs(c0[2] - c[2]) <= 1
                     /\ board[c0] # None
                     /\ board[c0].player = board'[c].player
                     /\ board[c0].type = board'[c].type]_vars
  /\ [](/\ DOMAIN board = Cells
        /\ \A c \in Cells :
             board[c] = None
             \/ board[c] \in [player : Player, type : {AI, Tech, Virus, Program, Firewall},
                              health : 1 .. MaxHealth]
        /\ \A p \in Player : C30_Count(board, p, AI) <= 1)

\* both sides have lost units in play, a unit has just moved, and each
\* side still has its one AI
C30_Witness ==
  /\ last.op \in {"human_turn", "computer_turn"} /\ last.success
  /\ last.src # last.dst
  /\ board[last.src] = None /\ board[last.dst] # None
  /\ \A p \in Player :
       /\ C30_Count(board, p, AI) = 1
       /\ Len(player_units(G, p)) < 6

\* C31: a perform_move to an empty cell that succeeds puts the unit of the
\* source, with its owner, kind and health, on the destination, empties the
\* source, and leaves every other cell, both has_ai flags, both
\* ai_self_destructed flags, next_player and turns_played as they were
C31_MoveRelocatesUnit ==
  [][(/\ last'.op = "perform_move" /\ last'.success
      /\ last'.src # last'.dst
      /\ get(G, last'.dst) = None)
     => /\ board[last'.src] # None
        /\ board'[last'.dst] = board[last'.src]
        /\ board'[last'.src] = None
        /\ \A c \in Cells \ {last'.src, last'.dst} : board'[c] = board[c]
        /\ UNCHANGED <<attacker_has_ai, defender_has_ai, attacker_ai_self_destructed,
                       defender_ai_self_destructed, next_player, turns_played, options>>]_vars

\* a damaged unit has moved
C31_Witness ==
  /\ phase = "called" /\ last.op = "perform_move" /\ last.success
  /\ last.reason = "moved"
  /\ board[last.src] = None
  /\ board[last.dst] # None /\ board[last.dst].health < MaxHealth

\* the place of a candidate in generation order: the kind of the source
\* unit (Firewall, Program, Tech, Virus, AI), the source cell row by row,
\* and the destination (up, left, down, right, then the source itself)
C32_Key(mv) ==
  LET src == mv[1]
      dst == mv[2]
      kind == board[src].type
      kind_rank == CASE kind = Firewall -> 1 [] kind = Program -> 2 [] kind = Tech -> 3
                     [] kind = Virus -> 4 [] kind = AI -> 5
      dst_rank == CASE dst = <<src[1] - 1, src[2]>> -> 1
                    [] dst = <<src[1], src[2] - 1>> -> 2
                    [] dst = <<src[1] + 1, src[2]>> -> 3
                    [] dst = <<src[1], src[2] + 1>> -> 4
                    [] dst = src -> 5
  IN  5 * (dim * dim * kind_rank + dim * src[1] + src[2]) + dst_rank

\* C32: the move a search returns from a state is that of the first child,
\* in generation order, among the children whose value is the best one
\* (greatest for the Attacker, least for the Defender), with and without
\* pruning; the candidates are the pairs from a unit of the player to move
\* to an adjacent cell of the board or to its own cell, ordered by kind
\* (Firewall, Program, Tech, Virus, AI), then by source cell row by row,
\* then up, left, down, right and self-destruct last, and the children
\* keep that order
C32_FirstBestInGenerationOrder ==
  (phase = "search" /\ search.depth > 0 /\ ~is_finished(G))
  => \E children \in {Children(G)}, cands \in {move_candidates(G)} :
     \E vals \in {[i \in 1 .. Len(children) |->
                     minimax_alpha_beta(
                       [children[i].g EXCEPT !.next_player = PlayerNext(next_player)],
                       search.depth - 1, -Inf, Inf, next_player # Attacker, FALSE).score]} :
       /\ {cands[i] : i \in 1 .. Len(cands)}
            = {<<src, dst>> \in Cells \X Cells :
                 /\ board[src] # None /\ board[src].player = next_player
                 /\ Abs(src[1] - dst[1]) + Abs(src[2] - dst[2]) <= 1}
       /\ \A i, j \in 1 .. Len(cands) : i < j => C32_Key(cands[i]) < C32_Key(cands[j])
       /\ \A i, j \in 1 .. Len(children) :
            i < j => C32_Key(children[i].move) < C32_Key(children[j].move)
       /\ children # << >>
          => \E first \in 1 .. Len(children) :
               /\ \A j \in 1 .. Len(children) :
                    IF next_player = Attacker THEN vals[j] <= vals[first]
                                              ELSE vals[j] >= vals[first]
               /\ \A j \in 1 .. first - 1 : vals[j] # vals[first]
               /\ search.plain.move = children[first].move
               /\ search.pruned.move = children[first].move
               /\ search.plain.score = vals[first]

\* a search of more than one level in which the move returned is not that
\* of the first child, and a later child has the same value
C32_Witness ==
  /\ phase = "search" /\ search.depth > 1 /\ ~is_finished(G)
  /\ search.plain.move # NoMove
  /\ \E children \in {Children(G)} :
       /\ children[1].move # search.plain.move
       /\ \E j \in 2 .. Len(children) :
            /\ C32_Key(children[j].move) > C32_Key(search.plain.move)
            /\ minimax_alpha_beta(
                 [children[j].g EXCEPT !.next_player = PlayerNext(next_player)],
                 search.depth - 1, -Inf, Inf, next_player # Attacker, FALSE).score
                 = search.plain.score

\* the points the scan of a unit's neighbours adds to health * weight in h2
C33_Bonus(c) ==
  evaluate_unit(G, c) - (IF board[c].type = AI THEN 1000 ELSE 5) * board[c].health

\* the points each occupied neighbour of c, in scan order (up, left, down,
\* right), grants to the unit on c
C33_Grants(c) ==
  LET adj == SelectSeq(iter_adjacent(c), LAMBDA d : board[d] # None)
  IN  [i \in 1 .. Len(adj) |-> NeighbourBonus(board[c], board[adj[i]]).pts]

\* C33: in an evaluation with h2 every unit, of whatever kind, gets on top
\* of health * weight the points of the first neighbour in scan order that
\* grants any, and nothing when no neighbour grants any
C33_OneBonusPerUnit ==
  (phase = "evaluated" /\ options.heuristic = 2)
  => \A c \in Cells :
       board[c] # None
       => \E grants \in {C33_Grants(c)} :
            IF \A i \in 1 .. Len(grants) : grants[i] = 0
            THEN C33_Bonus(c) = 0
            ELSE \E first \in 1 .. Len(grants) :
                   /\ grants[first] > 0
                   /\ \A i \in 1 .. first - 1 : grants[i] = 0
                   /\ C33_Bonus(c) = grants[first]

\* C34: in an evaluation with h2, when the first neighbour in scan order
\* that grants points to a unit is a unit of the same owner (the points are
\* then the healing bonus), Game.repair from the unit to that neighbour
\* succeeds on the state evaluated: the repair table has a positive entry
\* for the pair and the neighbour's health is below 9
C34_HealingBonusOnlyIfReparable ==
  (phase = "evaluated" /\ options.heuristic = 2)
  => \A c \in Cells :
       board[c] # None
       => \E adj \in {SelectSeq(iter_adjacent(c), LAMBDA d : board[d] # None)} :
          \A first \in 1 .. Len(adj) :
            (/\ NeighbourBonus(board[c], board[adj[first]]).pts > 0
             /\ \A i \in 1 .. first - 1 : NeighbourBonus(board[c], board[adj[i]]).pts = 0
             /\ board[adj[first]].player = board[c].player)
            => /\ repair(G, c, adj[first]).success
               /\ repair_table[board[c].type + 1][board[adj[first]].type + 1] > 0
               /\ board[adj[first]].health < MaxHealth

\* C35: over a suggest_move, total_nodes of the game grows by the number of
\* nodes the search visited, which is also the growth of the sum of the
\* eval_by_depth counters, and non_leaf_nodes grows by the number of visited
\* nodes that were expanded with at least one child
C35_StatisticsCountTheSearch ==
  [][last'.op = "computer_turn"
     => /\ search'.total_nodes - search.total_nodes = search'.visited
        /\ search'.eval_by_depth - search.eval_by_depth = search'.visited
        /\ search'.non_leaf_nodes - search.non_leaf_nodes = search'.expanded]_vars

\* C36: in a computer turn of a game that is not finished, with
\* max_depth >= 1, every move suggest_move can return, from a complete or
\* a cut-short search and with or without an overrun of max_time, is a move
\* (not None) that perform_move accepts on the current state; and a
\* computer turn either applies its move or ends the game on a finished
\* state, never on an illegal action
C36_SuggestedMoveAccepted ==
  /\ []((/\ phase = "turn" /\ last = Idle /\ ~HumanToMove(G)
         /\ ~is_finished(G) /\ options.max_depth >= 1)
        => \A truncated \in BOOLEAN :
           \A mv \in SuggestedMoves(G, truncated) :
             /\ mv # NoMove
             /\ \A overrun \in BOOLEAN :
                  perform_move(AfterOverrun(G, overrun), mv[1], mv[2]).success)
  /\ [][(phase = "turn" /\ last'.op = "computer_turn")
        => \/ last'.success
           \/ last'.reason = "no_move" /\ is_finished(GNext)]_vars

\* a computer turn has applied an attack or a repair that the search chose
C36_Witness ==
  /\ phase = "main" /\ last.op = "computer_turn" /\ last.success
  /\ last.src # last.dst
  /\ board[last.src] # None /\ board[last.dst] # None

\* C37: the self-destruct of a unit of the player to act, asked of
\* perform_move or of self_destruct, always succeeds; in every state in
\* which the player to act owns a unit, perform_move accepts the
\* self-destruct of each of its units and the children list is not empty;
\* and move_candidates yields nothing, which is has_winner's test for 'no
\* action available', exactly when the player to act owns no unit
C37_SelfDestructAlwaysAvailable ==
  /\ [][(/\ last'.op \in {"perform_move", "self_destruct"}
         /\ last'.src = last'.dst
         /\ get(G, last'.src) # None
         /\ get(G, last'.src).player = next_player)
        => last'.success /\ board'[last'.src] = None]_vars
  /\ [](\E own \in {player_units(G, next_player)} :
          /\ \A i \in 1 .. Len(own) : perform_move(G, own[i], own[i]).success
          /\ own # << >> => Children(G) # << >>
          /\ move_candidates(G) = << >> <=> own = << >>)

\* the Attacker, to act, has self-destructed its AI through perform_move
\* and still owns units
C37_Witness ==
  /\ phase = "called" /\ last.op = "perform_move" /\ last.success
  /\ last.src = last.dst
  /\ board[last.src] = None
  /\ next_player = Attacker /\ attacker_ai_self_destructed
  /\ player_units(G, Attacker) # << >>

\* the player to act is left without a unit
C37_WitnessNoUnit ==
  /\ phase = "called"
  /\ player_units(G, next_player) = << >>
  /\ move_candidates(G) = << >>

\* C38: an attack that brings the target to health 0 removes the target,
\* and the attacker still loses damage_table[target kind][attacker kind]
\* health in the same call: it is removed when that is its health or more,
\* and otherwise stays with its health lowered by that amount
C38_DeadTargetStrikesBack ==
  [][(/\ last'.op \in {"attack", "perform_move"} /\ last'.success
      /\ last'.src # last'.dst
      /\ get(G, last'.src) # None /\ get(G, last'.dst) # None
      /\ get(G, last'.src).player # get(G, last'.dst).player
      /\ get(G, last'.dst).health
           <= damage_table[get(G, last'.src).type + 1][get(G, last'.dst).type + 1])
     => LET attacker_unit == board[last'.src]
            target_unit == board[last'.dst]
            back == damage_table[target_unit.type + 1][attacker_unit.type + 1]
        IN  /\ board'[last'.dst] = None
            /\ board'[last'.src] =
                 IF attacker_unit.health <= back THEN None
                 ELSE [attacker_unit EXCEPT !.health = attacker_unit.health - back]
            /\ \A c \in Cells \ {last'.src, last'.dst} : board'[c] = board[c]]_vars

\* one attack has removed both the target and the attacker
C38_Witness ==
  /\ phase = "called" /\ last.success /\ last.reason = "attacked"
  /\ last.src # last.dst
  /\ board[last.src] = None /\ board[last.dst] = None

\* C39: after a step that takes the AI units of both players off the board,
\* has_winner reports Defender
C39_BothAIsRemovedDefenderWins ==
  [][(/\ \A p \in {Attacker, Defender} :
           \E c \in Cells : board[c].player = p /\ board[c].type = AI
      /\ \A c \in Cells : board'[c].type # AI)
     => has_winner(GNext) = Defender]_vars

\* C39: after a step in which the AI units of both players die of the damage
\* dealt (both has_ai flags are cleared by it), has_winner reports Defender
C39_BothAIsKilledDefenderWins ==
  [][(/\ \A p \in {Attacker, Defender} :
           \E c \in Cells : board[c].player = p /\ board[c].type = AI
      /\ attacker_has_ai /\ defender_has_ai
      /\ ~attacker_has_ai' /\ ~defender_has_ai')
     => (/\ \A c \in Cells : board'[c].type # AI
         /\ has_winner(GNext) = Defender)]_vars

\* one attack of an AI on the other AI has destroyed both
C39_WitnessAttack ==
  /\ phase = "called" /\ last.success /\ last.reason = "attacked"
  /\ ~attacker_has_ai /\ ~defender_has_ai
  /\ \A c \in Cells : board[c].type # AI
  /\ \E c \in Cells : board[c] # None

\* one self-destruct has put an end to both AI units by its damage
C39_WitnessBlast ==
  /\ phase = "called" /\ last.success /\ last.op \in {"self_destruct", "perform_move"}
  /\ last.src = last.dst
  /\ ~attacker_has_ai /\ ~defender_has_ai
  /\ \A c \in Cells : board[c].type # AI
  /\ \E c \in Cells : board[c] # None

\* C40: in play from the starting layout next_player is Attacker exactly
\* when turns_played is odd; a step changes next_player if and only if it
\* changes turns_played, and then it passes the turn to the other player and
\* adds one to turns_played; every accepted action is that of a unit of the
\* player to act and passes the turn, and no other step does
C40_PlayersAlternate ==
  /\ [](next_player = Attacker <=> turns_played % 2 = 1)
  /\ [](next_player \in {Attacker, Defender})
  /\ [][/\ (next_player' # next_player <=> turns_played' # turns_played)
        /\ (next_player' # next_player =>
              /\ next_player' = PlayerNext(next_player)
              /\ turns_played' = turns_played + 1)
        /\ (next_player' # next_player <=>
              (phase = "turn" /\ last'.success
               /\ last'.op \in {"human_turn", "computer_turn"}))
        /\ (next_player' # next_player =>
              /\ board[last'.src] # None
              /\ board[last'.src].player = next_player)]_vars

\* the game has used all the turns max_turns left after its position, so
\* each player has had an action accepted, and the last one was the move of
\* a unit of the player who is not to act now
C40_Witness ==
  /\ phase = "main" /\ last.success
  /\ last.op \in {"human_turn", "computer_turn"}
  /\ turns_played = options.max_turns + 1
  /\ last.reason = "moved"
  /\ board[last.dst] # None /\ board[last.dst].player = PlayerNext(next_player)
  /\ (next_player = Attacker <=> turns_played % 2 = 1)

====
